---- MODULE Spec2Model ----
(***************************************************************************)
(* A model of the local-search indexing engine:                            *)
(*   app/indexer.py  Indexer (run_forever, _scan_once, stop,               *)
(*                   request_rescan), IndexStatus, _redact                 *)
(*   app/db.py       LocalSearchDB (upsert_files, delete_files,            *)
(*                   get_file_meta) over a write and a read connection     *)
(*                   and its search (search_v2 and what it calls)          *)
(*   mcp/server.py   LocalSearchMCPServer (run, handle_request,            *)
(*                   _ensure_initialized, _tool_status, _tool_search)      *)
(*                                                                         *)
(* Spec      one indexer working through scan passes over a changing file  *)
(*           tree (the write path, sequential).                            *)
(* SpecLoop  Indexer.run_forever with its two events, a caller of stop()   *)
(*           and callers of request_rescan(); the pass is reduced to its   *)
(*           walk and its three status writes.  SpecLoopFair adds the      *)
(*           fairness of the threads, and none for the interval timer.     *)
(* SpecStatus  the loop with a clock and a caller of the status tool that  *)
(*           reads the fields of Indexer.status one after the other.       *)
(* SpecDB    two threads calling upsert_files / delete_files and a reader, *)
(*           on the write and the read connection of one LocalSearchDB.    *)
(* SpecSearch  calls of LocalSearchDB.search_v2 on a changing table, with  *)
(*           the options built as the search tool and the tests build them.*)
(* SpecRedact  _redact applied to the text of one file.                    *)
(* SpecStore   calls of upsert_files / delete_files on one store, with the *)
(*           full-text index its triggers keep.                            *)
(* SpecEnsure  the server is started in a workspace and opens its store.   *)
(* SpecServe   LocalSearchMCPServer.run answering the lines of stdin.      *)
(* SpecTool    calls of the search tool on a changing table.               *)
(* SpecSnippet  _snippet_around applied to one content.                    *)
(* SpecRecency  the score _process_rows gives one row.                     *)
(* SpecList    calls of list_files on a changing table.                    *)
(* SpecLike    the substring search (_search_like) on a table of one row,  *)
(*           contents and queries character by character.                  *)
(* SpecCandidates  calls of repo_candidates on a changing table.           *)
(* SpecLife    one server from its start to the end of run: the tools/call *)
(*           requests, the indexer threads they start, the shutdown.       *)
(* SpecWalk    Indexer._iter_files walking one tree, directory by          *)
(*           directory, pulled by the loop of the scan pass.               *)
(***************************************************************************)
EXTENDS Integers, Sequences, FiniteSets, TLC

VARIABLES
    \* ---- the file tree under cfg.workspace_root (the environment)
    rootOk,      \* root.exists() and root.is_dir()
    fs,          \* path -> what is at that path
    edits,       \* how many changes the environment has made to the tree
    \* ---- LocalSearchDB
    files,       \* the committed `files` table, as the read connection sees it
    inTx,        \* the write connection has a transaction open
    \* ---- Indexer._scan_once (locals of the running pass) and Indexer.status
    pc,          \* "idle" | "loop"
    cands,       \* the paths _iter_files yields in this pass, in walk order
    pos,         \* index in cands of the next candidate
    scanned,
    indexed,
    batch,
    status,      \* IndexStatus
    now,         \* time.time()
    \* ---- history of the running (or last) pass, read by the properties only
    startFiles,  \* the files table when the pass began
    readTry,     \* paths on which read_text was called in the pass
    queued,      \* paths whose row was appended to batch in the pass
    passFault,   \* an upsert_files call of the pass raised
    prevFault,   \* the same, for the pass before
    fresh,       \* a pass has ended and the tree has not changed since it began
    quiet,       \* completed passes in a row without a change of the tree (0..2)
    \* ---- Indexer.run_forever, stop, request_rescan
    lpc,         \* where run_forever is
    stopEv,      \* self._stop
    rescanEv,    \* self._rescan
    spc,         \* where the caller of stop() is: "none" | "half" | "done"
    \* ---- history of the loop, read by the properties only
    pending,     \* a rescan was requested and no pass has begun since
    afterStop,   \* passes begun since _stop was set
    \* ---- LocalSearchMCPServer._tool_status
    rpc,         \* the field the caller reads next: "idle" | "index_ready" | ... | "done"
    snap,        \* the fields read so far
    \* ---- history of the status, read by the properties only
    stable,      \* the status as the last pass that ended left it
    okSnaps,     \* the values stable has had since the running status read began
                 \* that agree with the fields read so far
    \* ---- LocalSearchDB with concurrent callers
    lock,        \* self._lock: "none", or the thread that holds it
    work,        \* the files table as the write connection sees it
    wpc,         \* thread -> where it is in upsert_files / delete_files
    wop,         \* thread -> the batch it was called with
    widx,        \* thread -> the next statement of executemany
    rseen,       \* the rows the last read returned
    \* ---- history of the write connection, read by the properties only
    txLog,       \* the statements executed in the open transaction: <<thread, index>>
    torn,        \* a commit has published something else than one whole batch
    clash,       \* BEGIN has raised on the running transaction of another batch
    rDuring,     \* the last read ran while a batch was partly executed
    \* ---- LocalSearchDB.search_v2 and its caller
    docs,        \* the rows of the files table the searches run on, in path order
    sreq,        \* the last search: its keyword arguments, the state of the
                 \* full-text engine and the time of the call
    sres,        \* what that search returned, or the exception it raised
    \* ---- _redact on the text of one file
    xpc,         \* "idle" | "read" | "redacted"
    text,        \* the lines read_text returned
    redacted,    \* the lines _redact returned for them
    \* ---- LocalSearchDB: the instance and its full-text index
    opened,      \* LocalSearchDB.__init__ has run
    fts_enabled, \* self._fts_enabled
    probes,      \* how often _try_enable_fts has run
    rowids,      \* path -> rowid of its row in files, 0 without a row
    ftsIdx,      \* the entries of files_fts, in the order they were added
    wcall,       \* the last call of upsert_files / delete_files and its outcome
    before,      \* the files table when that call was made
    \* ---- LocalSearchMCPServer.run
    srvpc,       \* "serving" | "terminated" (an exception has left run)
    inp,         \* the lines read from stdin
    out,         \* the responses printed, each with the number of its line
    \* ---- LocalSearchMCPServer._ensure_initialized
    launch,      \* how the server was started: workspace root, environment, config file
    initialized, \* self._initialized
    dbPath,      \* the path LocalSearchDB was opened on
    \* ---- LocalSearchMCPServer._tool_search
    targs,       \* the arguments of the last call of the search tool
    tres,        \* what the call returned, or that it raised
    \* ---- LocalSearchDB._snippet_around
    snpc,        \* "idle" | "called" | "done"
    snContent,   \* content, a sequence of characters
    snTerms,     \* terms
    snMaxLines,  \* max_lines
    snippet,     \* the lines of the snippet returned
    \* ---- Indexer._iter_files
    wkpc,        \* "idle" | "walking" | "done" (the generator is exhausted)
    tree,        \* the files under root, each the sequence of the names of its path
    cfg,         \* include_ext, include_files, exclude_dirs, exclude_globs
    stack,       \* the directories os.walk has yet to visit, the next one first
    visited,     \* the directories os.walk has listed
    yielded,     \* the files yielded, in order
    \* ---- LocalSearchDB._process_rows scoring one row
    rcall,       \* the last row scored: its mtime and base score, the option, the time, the score
    \* ---- LocalSearchDB.list_files
    ltab,        \* the paths (by number) that have a row in files
    lcall,       \* the last call of list_files: its arguments, the files and the meta returned
    \* ---- LocalSearchDB._search_like on a table of one row
    kcall,       \* the last call: the content of the row, the query, whether the row was returned
    \* ---- LocalSearchDB.repo_candidates
    ctab,        \* file (by number) -> the content of its row, or NoRow
    ccall,       \* the last call of repo_candidates: its arguments and what it returned
    \* ---- one LocalSearchMCPServer from its start to the end of run
    init_timeout, \* LOCAL_SEARCH_INIT_TIMEOUT of the environment
    mainpc,      \* the main thread: "new" | "serving" | "stopped" | "closed"
    calls,       \* how many tools/call requests have been handled
    isInit,      \* self._initialized
    dbs,         \* the LocalSearchDB instances constructed, "open" or "closed"; self.db is the last
    threads      \* the indexer threads started, each with its Indexer; self.indexer is the last

fsVars == <<rootOk, fs, edits>>
dbVars == <<files, inTx>>
scanVars == <<pc, cands, pos, scanned, indexed, batch, status, now>>
histVars == <<startFiles, readTry, queued, passFault, prevFault, fresh, quiet>>
loopVars == <<lpc, stopEv, rescanEv, spc, pending, afterStop>>
rdVars == <<rpc, snap, stable, okSnaps>>
dbcVars == <<lock, work, wpc, wop, widx, rseen, txLog, torn, clash, rDuring>>
\* What the scan passes of Spec leave alone.
srchVars == <<docs, sreq, sres>>
redVars == <<xpc, text, redacted>>
ftsVars == <<opened, fts_enabled, probes>>
stVars == <<rowids, ftsIdx, wcall, before>>
srvVars == <<srvpc, inp, out>>
\* The parts of the server that only their own specification moves.
iniVars == <<launch, initialized, dbPath>>
toolVars == <<targs, tres>>
snipVars == <<snpc, snContent, snTerms, snMaxLines, snippet>>
walkVars == <<wkpc, tree, cfg, stack, visited, yielded>>
recVars == <<rcall>>
listVars == <<ltab, lcall>>
likeVars == <<kcall>>
candVars == <<ctab, ccall>>
lifeVars == <<init_timeout, mainpc, calls, isInit, dbs, threads>>
extVars == <<srvVars, iniVars, toolVars, snipVars, walkVars, recVars,
        listVars,
        likeVars,
        candVars,
        lifeVars>>
outerVars == <<loopVars, rdVars, dbcVars, srchVars, redVars, ftsVars, stVars,
               extVars>>
vars == <<fsVars, dbVars, scanVars, histVars, loopVars, rdVars, dbcVars, srchVars,
          redVars, ftsVars, stVars, extVars>>

----------------------------------------------------------------------------
(* Bounds of the model. *)

\* File modification times are in half-second ticks, 0..MaxMtime.
MaxMtime == 2
\* The environment changes the tree at most MaxEdits times.
MaxEdits == 2
\* status.errors is capped: a step that would count an error past it is not taken.
MaxErrors == 2
\* The most files the walk of a pass counts, where the pass is reduced to its walk.
MaxCount == 1
\* The clock runs from 1 to MaxTime.
MaxTime == 2

(* Program configuration, scaled down. *)

\* cfg.max_file_bytes (800000 in the default configuration); sizes here are in lines.
MaxFileBytes == 2
\* batch_size = max(50, cfg.commit_batch_size); scaled so that a batch fills inside a pass.
BatchSize == 2

----------------------------------------------------------------------------
(* Texts, redaction. *)

\* A line is a key and a value; a text is a sequence of lines.
PlainLine == [key |-> "note", val |-> "hello"]
SecretLine == [key |-> "password", val |-> "hunter2"]
SecretKeys == {"password", "secret", "token"}

Texts ==
    { <<PlainLine>>, <<SecretLine>>, <<PlainLine, PlainLine>>,
      <<PlainLine, PlainLine, PlainLine>> }

\* st.st_size of a file holding text t.
SizeOf(t) == Len(t)

\* An empty line, a key with nothing after the '=', and a line that is '***'.
BlankLine == [key |-> "", val |-> ""]
EmptySecretLine == [key |-> "password", val |-> ""]
Starred == [key |-> "", val |-> "***"]

RedactLine(l) == IF l.key \in SecretKeys THEN [l EXCEPT !.val = "***"] ELSE l

\* \s* runs over line ends: the first line from i on that is not blank.
RECURSIVE SkipBlank(_, _)
SkipBlank(t, i) ==
    IF i <= Len(t) /\ t[i] = BlankLine THEN SkipBlank(t, i + 1) ELSE i

\* pat.sub over the lines from i on, for '^(\s*key\s*[:=]\s*)(.+?)\s*$' under
\* (?im).  The value is the first text after the '=': on the line of the key,
\* or, when that line ends at the '=', the whole next line that is not blank
\* (the \s* of the prefix has run over the line ends in between).  The \s*
\* after the value runs over the line ends that follow it up to the last one
\* before other text, and the replacement leaves them out: the blank lines
\* after a replaced value are gone.
RECURSIVE RedactFrom(_, _)
RedactFrom(t, i) ==
    IF i > Len(t) THEN <<>>
    ELSE IF t[i].key \notin SecretKeys THEN <<t[i]>> \o RedactFrom(t, i + 1)
    ELSE IF t[i].val # "" THEN
        <<RedactLine(t[i])>> \o RedactFrom(t, SkipBlank(t, i + 1))
    ELSE LET j == SkipBlank(t, i + 1) IN
         IF j > Len(t) THEN <<t[i]>> \o RedactFrom(t, i + 1)
         ELSE SubSeq(t, i, j - 1) \o <<Starred>>
                  \o RedactFrom(t, SkipBlank(t, j + 1))

Redact(t) == RedactFrom(t, 1)

RedactEnabled == TRUE

\* int(st.st_mtime): the float mtime (in ticks of half a second) truncated to seconds.
IntMtime(m) == m \div 2

----------------------------------------------------------------------------
(* The file tree. *)

\* A path is its sequence of segments, relative to the workspace root.
Paths == { <<"top.py">>, <<"a", "x.py">> }

\* os.walk is top-down: the files of the root directory, then those of a/.
WalkOrder == << <<"top.py">>, <<"a", "x.py">> >>

Absent == [kind |-> "absent"]
\* An entry os.walk lists whose stat() raises (a dangling symlink).
NoStat == [kind |-> "nostat"]

RegularFiles ==
    [kind : {"file"}, mtime : 0..MaxMtime, text : Texts, readable : BOOLEAN]

\* The files the environment creates: an unreadable or oversized file comes in
\* one shape of content, since the pass never looks at its content.
FileStates ==
    {Absent, NoStat} \cup
    { f \in RegularFiles :
        /\ (~f.readable => f.text = <<PlainLine>>)
        /\ (SizeOf(f.text) > MaxFileBytes => f.mtime = 0 /\ f.readable) }

NoRow == [kind |-> "norow"]

\* A repo name without the sentinel: the first path segment of every file.
RepoOfFirstSegment(p) == p[1]

\* repo of a row: the first path segment, "__root__" for a file of the root directory.
RepoOf(p) == IF Len(p) = 1 THEN "__root__" ELSE p[1]

----------------------------------------------------------------------------
(* LocalSearchDB: the files table. *)

Row(r) ==
    [kind |-> "row", repo |-> r.repo, mtime |-> r.mtime, size |-> r.size,
     content |-> r.content]

\* INSERT OR IGNORE: the first row of a path stays.
RECURSIVE ApplyUpsertKeepFirst(_, _)
ApplyUpsertKeepFirst(table, rows) ==
    IF rows = <<>> THEN table
    ELSE ApplyUpsertKeepFirst(
             IF table[Head(rows).path] = NoRow
             THEN [table EXCEPT ![Head(rows).path] = Row(Head(rows))]
             ELSE table,
             Tail(rows))

\* INSERT ... ON CONFLICT(path) DO UPDATE, statement by statement over the rows.
RECURSIVE ApplyUpsert(_, _)
ApplyUpsert(table, rows) ==
    IF rows = <<>> THEN table
    ELSE ApplyUpsert([table EXCEPT ![Head(rows).path] = Row(Head(rows))], Tail(rows))

\* A read that goes through the write connection: it sees the statements of an
\* open transaction.
ReadTableOnWriteConn == IF inTx THEN work ELSE files

\* What a statement on the read connection (self._read) sees: committed rows.
ReadTable == files

\* get_file_meta: one SELECT on the read connection; None, or (mtime, size).
None == <<>>
GetFileMeta(p) ==
    IF ReadTable[p] = NoRow THEN None ELSE <<ReadTable[p].mtime, ReadTable[p].size>>

\* upsert_files(rows) returns: BEGIN succeeds only when the write connection has no
\* transaction open; the rows are written and committed.
UpsertReturns(rows) ==
    /\ ~inTx
    /\ files' = ApplyUpsert(files, rows)
    /\ inTx' = FALSE

\* upsert_files(rows) raises.  With a transaction already open BEGIN raises and
\* the connection stays as it is.  Otherwise executemany or commit raises; nothing
\* is committed, and the transaction is left open (the code does not roll back)
\* unless SQLite itself rolled it back.
UpsertRaises(rows) ==
    /\ files' = files
    /\ IF inTx THEN inTx' = TRUE ELSE inTx' \in BOOLEAN

----------------------------------------------------------------------------
(* Indexer._iter_files and the change test of _scan_once. *)

\* The entries of the tree, in walk order (every path of the model has an
\* included extension and no excluded directory).
IterFiles == SelectSeq(WalkOrder, LAMBDA p : fs[p] # Absent)

\* Variants of the change test with one comparison wrong: the size is not
\* compared; the float mtime is compared without int().
UnchangedMtimeOnly(prev, f) ==
    /\ prev # None
    /\ IntMtime(f.mtime) = prev[1]

UnchangedNoTrunc(prev, f) ==
    /\ prev # None
    /\ f.mtime = prev[1]
    /\ SizeOf(f.text) = prev[2]

\* Lines 119-123: skip the file when the stored (mtime, size) equal the current ones.
Unchanged(prev, f) ==
    /\ prev # None
    /\ IntMtime(f.mtime) = prev[1]
    /\ SizeOf(f.text) = prev[2]

\* The row appended to batch (line 133).
BatchRow(p, f) ==
    [path |-> p, repo |-> RepoOf(p), mtime |-> IntMtime(f.mtime),
     size |-> SizeOf(f.text),
     content |-> IF RedactEnabled THEN Redact(f.text) ELSE f.text]

CountError == status' = [status EXCEPT !.errors = @ + 1]

----------------------------------------------------------------------------
(* The environment: changes of the file tree, between passes. *)

EditFile(p, f) ==
    /\ pc = "idle" /\ rootOk /\ edits < MaxEdits
    /\ f # fs[p]
    /\ fs' = [fs EXCEPT ![p] = f]
    /\ edits' = edits + 1
    /\ fresh' = FALSE /\ quiet' = 0
    /\ UNCHANGED <<rootOk, dbVars, scanVars, startFiles, readTry, queued,
                   passFault, prevFault>>
    /\ UNCHANGED outerVars

RemoveRoot ==
    /\ pc = "idle" /\ rootOk /\ edits < MaxEdits
    /\ rootOk' = FALSE
    /\ fs' = [p \in Paths |-> Absent]
    /\ edits' = edits + 1
    /\ fresh' = FALSE /\ quiet' = 0
    /\ UNCHANGED <<dbVars, scanVars, startFiles, readTry, queued, passFault,
                   prevFault>>
    /\ UNCHANGED outerVars

CreateRoot ==
    /\ pc = "idle" /\ ~rootOk /\ edits < MaxEdits
    /\ rootOk' = TRUE
    /\ edits' = edits + 1
    /\ fresh' = FALSE /\ quiet' = 0
    /\ UNCHANGED <<fs, dbVars, scanVars, startFiles, readTry, queued, passFault,
                   prevFault>>
    /\ UNCHANGED outerVars

----------------------------------------------------------------------------
(* Indexer._scan_once, in steps: its start, one step per candidate, its end. *)

\* Lines 92-95: the root is no directory; one error is counted and the pass returns.
ScanRootMissing ==
    /\ pc = "idle" /\ ~rootOk
    /\ status.errors < MaxErrors
    /\ CountError
    /\ fresh' = FALSE /\ quiet' = 0
    /\ UNCHANGED <<fsVars, dbVars, pc, cands, pos, scanned, indexed, batch, now,
                   startFiles, readTry, queued, passFault, prevFault>>
    /\ UNCHANGED outerVars

\* Lines 92-102: the locals of a pass, and the walk.
ScanBegin ==
    /\ pc = "idle" /\ rootOk
    /\ pc' = "loop"
    /\ cands' = IterFiles
    /\ pos' = 1
    /\ scanned' = 0 /\ indexed' = 0 /\ batch' = <<>>
    /\ startFiles' = files
    /\ readTry' = {} /\ queued' = {}
    /\ prevFault' = passFault /\ passFault' = FALSE
    /\ fresh' = FALSE
    /\ UNCHANGED <<fsVars, dbVars, status, now, quiet>>
    /\ UNCHANGED outerVars

\* What one iteration leaves alone whatever its outcome.
LoopFrame ==
    UNCHANGED <<fsVars, pc, cands, now, startFiles, prevFault, fresh, quiet, outerVars>>

\* Lines 102-141: one iteration of the loop over the candidates.
ScanFile ==
    /\ pc = "loop" /\ pos <= Len(cands)
    /\ pos' = pos + 1
    /\ scanned' = scanned + 1
    /\ LoopFrame
    /\ LET p == cands[pos]
           f == fs[p]
           row == BatchRow(p, f)
           full == Append(batch, row)
       IN
       \* stat() raises: caught at line 140
       \/ /\ f = NoStat
          /\ status.errors < MaxErrors
          /\ CountError
          /\ UNCHANGED <<dbVars, indexed, batch, readTry, queued, passFault>>
       \* over the size ceiling (line 115)
       \/ /\ f # NoStat
          /\ SizeOf(f.text) > MaxFileBytes
          /\ UNCHANGED <<dbVars, indexed, batch, status, readTry, queued, passFault>>
       \* unchanged (mtime, size) (lines 119-123)
       \/ /\ f # NoStat
          /\ SizeOf(f.text) <= MaxFileBytes
          /\ Unchanged(GetFileMeta(p), f)
          /\ UNCHANGED <<dbVars, indexed, batch, status, readTry, queued, passFault>>
       \* read_text raises (lines 125-128)
       \/ /\ f # NoStat
          /\ SizeOf(f.text) <= MaxFileBytes
          /\ ~Unchanged(GetFileMeta(p), f)
          /\ ~f.readable
          /\ readTry' = readTry \cup {p}
          /\ UNCHANGED <<dbVars, indexed, batch, status, queued, passFault>>
       \* read, redacted, appended; the batch is not full yet
       \/ /\ f # NoStat
          /\ SizeOf(f.text) <= MaxFileBytes
          /\ ~Unchanged(GetFileMeta(p), f)
          /\ f.readable
          /\ Len(full) < BatchSize
          /\ readTry' = readTry \cup {p}
          /\ queued' = queued \cup {p}
          /\ batch' = full
          /\ UNCHANGED <<dbVars, indexed, status, passFault>>
       \* the batch is full and upsert_files returns (lines 135-138)
       \/ /\ f # NoStat
          /\ SizeOf(f.text) <= MaxFileBytes
          /\ ~Unchanged(GetFileMeta(p), f)
          /\ f.readable
          /\ Len(full) >= BatchSize
          /\ readTry' = readTry \cup {p}
          /\ queued' = queued \cup {p}
          /\ UpsertReturns(full)
          /\ indexed' = indexed + Len(full)
          /\ batch' = <<>>
          /\ UNCHANGED <<status, passFault>>
       \* the batch is full and upsert_files raises: caught at line 140, the
       \* batch keeps its rows
       \/ /\ f # NoStat
          /\ SizeOf(f.text) <= MaxFileBytes
          /\ ~Unchanged(GetFileMeta(p), f)
          /\ f.readable
          /\ Len(full) >= BatchSize
          /\ status.errors < MaxErrors
          /\ readTry' = readTry \cup {p}
          /\ queued' = queued \cup {p}
          /\ UpsertRaises(full)
          /\ batch' = full
          /\ CountError
          /\ passFault' = TRUE
          /\ UNCHANGED indexed

\* Lines 150-152.
WriteStatus(nIndexed) ==
    [status EXCEPT !.last_scan_ts = now, !.scanned_files = scanned,
                   !.indexed_files = nIndexed]

\* A last flush that counts the rows of the batch before it writes them.
FinalFlushCountsAttempt ==
    \/ /\ batch = <<>>
       /\ status' = WriteStatus(indexed)
       /\ UNCHANGED <<dbVars, indexed, batch, passFault>>
    \/ /\ batch # <<>>
       /\ UpsertReturns(batch)
       /\ indexed' = indexed + Len(batch)
       /\ status' = WriteStatus(indexed + Len(batch))
       /\ UNCHANGED <<batch, passFault>>
    \/ /\ batch # <<>>
       /\ status.errors < MaxErrors
       /\ UpsertRaises(batch)
       /\ indexed' = indexed + Len(batch)
       /\ status' = [WriteStatus(indexed + Len(batch)) EXCEPT !.errors = @ + 1]
       /\ passFault' = TRUE
       /\ UNCHANGED batch

\* A pass end that forgets the rows still in the batch.
FinalFlushSkipped ==
    /\ status' = WriteStatus(indexed)
    /\ UNCHANGED <<dbVars, indexed, batch, passFault>>

\* Lines 143-152: the last flush, then the status of the pass.
FinalFlush ==
    \/ /\ batch = <<>>
       /\ status' = WriteStatus(indexed)
       /\ UNCHANGED <<dbVars, indexed, batch, passFault>>
    \/ /\ batch # <<>>
       /\ UpsertReturns(batch)
       /\ indexed' = indexed + Len(batch)
       /\ status' = WriteStatus(indexed + Len(batch))
       /\ UNCHANGED <<batch, passFault>>
    \/ /\ batch # <<>>
       /\ status.errors < MaxErrors
       /\ UpsertRaises(batch)
       /\ status' = [WriteStatus(indexed) EXCEPT !.errors = @ + 1]
       /\ passFault' = TRUE
       /\ UNCHANGED <<indexed, batch>>

\* The end of a pass (lines 143-152).
ScanFinish ==
    /\ pc = "loop" /\ pos > Len(cands)
    /\ pc' = "idle"
    /\ fresh' = TRUE
    /\ quiet' = IF quiet < 2 THEN quiet + 1 ELSE 2
    /\ UNCHANGED <<fsVars, cands, pos, scanned, now, startFiles, readTry, queued,
                   prevFault>>
    /\ UNCHANGED outerVars
    /\ FinalFlush

----------------------------------------------------------------------------
(* Spec: scan passes over a changing tree. *)

StatusInit ==
    [index_ready |-> FALSE, last_scan_ts |-> 0, scanned_files |-> 0,
     indexed_files |-> 0, errors |-> 0]

FsInit ==
    /\ rootOk = TRUE
    /\ fs = [p \in Paths |-> Absent]
    /\ edits = 0

DbInit ==
    /\ files = [p \in Paths |-> NoRow]
    /\ inTx = FALSE

ScanInit ==
    /\ pc = "idle" /\ cands = <<>> /\ pos = 1
    /\ scanned = 0 /\ indexed = 0 /\ batch = <<>>
    /\ status = StatusInit
    /\ now = 1
    /\ startFiles = [p \in Paths |-> NoRow]
    /\ readTry = {} /\ queued = {}
    /\ passFault = FALSE /\ prevFault = FALSE
    /\ fresh = FALSE /\ quiet = 0

LoopInit ==
    /\ lpc = "start"
    /\ stopEv = FALSE /\ rescanEv = FALSE
    /\ spc = "none"
    /\ pending = FALSE /\ afterStop = 0

\* The four counters of a status.
Counters(st) == <<st.last_scan_ts, st.scanned_files, st.indexed_files, st.errors>>

ReaderInit ==
    /\ rpc = "idle"
    /\ snap = StatusInit
    /\ stable = Counters(StatusInit)
    /\ okSnaps = {}

Writers == {"w1", "w2"}

NoOp == [kind |-> "none", rows |-> <<>>]

DbcInit ==
    /\ lock = "none"
    /\ work = [p \in Paths |-> NoRow]
    /\ wpc = [t \in Writers |-> "idle"]
    /\ wop = [t \in Writers |-> NoOp]
    /\ widx = [t \in Writers |-> 1]
    /\ rseen = [p \in Paths |-> NoRow]
    /\ txLog = <<>>
    /\ torn = FALSE /\ clash = FALSE /\ rDuring = FALSE

\* The paths of the rows the searches run on, in the order of ORDER BY f.path.
\* A path is here the sequence of its parts: names, "/" and ".".
DocPaths ==
    << <<"docs", "/", "index", ".", "md">>,
       <<"src", "/", "main", ".", "py">>,
       <<"src", "/", "util", ".", "PY">> >>

NoCall == [raised |-> "nocall"]
NoSearch == [kw |-> [query |-> ""], fts |-> "ok", at |-> 0]

SearchInit ==
    /\ docs = [i \in 1..Len(DocPaths) |-> NoRow]
    /\ sreq = NoSearch
    /\ sres = NoCall

RedactInit ==
    /\ xpc = "idle"
    /\ text = <<>>
    /\ redacted = <<>>

\* No call of upsert_files / delete_files yet.
NoWrite == [op |-> "none"]

\* Before LocalSearchDB.__init__ probes for the full-text engine (line 72).
StoreInit ==
    /\ opened = FALSE
    /\ fts_enabled = FALSE
    /\ probes = 0
    /\ rowids = [p \in Paths |-> 0]
    /\ ftsIdx = <<>>
    /\ wcall = NoWrite
    /\ before = [p \in Paths |-> NoRow]

\* run has logged its start and waits for the first line (line 634).
ServerInit ==
    /\ srvpc = "serving"
    /\ inp = <<>>
    /\ out = <<>>

\* The process has not been started.
NoLaunch == [started |-> FALSE]

EnsureInit ==
    /\ launch = NoLaunch
    /\ initialized = FALSE
    /\ dbPath = <<>>

\* The search tool has not been called.
NoArgs == [query |-> ""]

ToolInit ==
    /\ targs = NoArgs
    /\ tres = NoCall

SnippetInit ==
    /\ snpc = "idle"
    /\ snContent = <<>>
    /\ snTerms = <<>>
    /\ snMaxLines = 0
    /\ snippet = <<>>

\* A configuration that includes and excludes nothing.
NoConfig ==
    [include_ext |-> {}, include_files |-> {}, exclude_dirs |-> {}, exclude_globs |-> <<>>]

WalkInit ==
    /\ wkpc = "idle"
    /\ tree = {}
    /\ cfg = NoConfig
    /\ stack = <<>>
    /\ visited = <<>>
    /\ yielded = <<>>

\* No row has been scored.
NoScore == [scored |-> FALSE]

RecencyInit == rcall = NoScore

\* list_files has not been called.
NoList == [listed |-> FALSE]

ListInit ==
    /\ ltab = {}
    /\ lcall = NoList

\* _search_like has not been called.
NoLike == [called |-> FALSE]

LikeInit == kcall = NoLike

\* repo_candidates has not been called.
NoCandidates == [called |-> FALSE]

CandidatesInit ==
    /\ ctab = [i \in 1..7 |-> NoRow]
    /\ ccall = NoCandidates

\* LocalSearchMCPServer.__init__ (lines 43-49): nothing is opened or started.
LifeInit ==
    /\ init_timeout = "unset"
    /\ mainpc = "new"
    /\ calls = 0
    /\ isInit = FALSE
    /\ dbs = <<>>
    /\ threads = <<>>

Init ==
    /\ FsInit /\ DbInit /\ ScanInit /\ LoopInit /\ ReaderInit /\ DbcInit
    /\ SearchInit /\ RedactInit /\ StoreInit /\ ServerInit /\ EnsureInit
    /\ ToolInit /\ SnippetInit /\ WalkInit /\ RecencyInit
    /\ ListInit /\ LikeInit /\ CandidatesInit /\ LifeInit

Next ==
    \/ \E p \in Paths, f \in FileStates : EditFile(p, f)
    \/ RemoveRoot
    \/ CreateRoot
    \/ ScanRootMissing
    \/ ScanBegin
    \/ ScanFile
    \/ ScanFinish

Spec == Init /\ [][Next]_vars

----------------------------------------------------------------------------
(* Properties of the scan pass (checked under Spec). *)

\* The candidates the running (or last) pass has gone through.
Visited ==
    IF pc = "loop" THEN {cands[i] : i \in 1..(pos - 1)}
    ELSE {cands[i] : i \in 1..Len(cands)}

\* The tree is the one the running (or last) pass walks.
TreeAsScanned == pc = "loop" \/ fresh

WithinCeiling(p) == fs[p].kind = "file" /\ SizeOf(fs[p].text) <= MaxFileBytes

\* The store, as the pass found it, has no metadata for p or another (mtime, size).
StoredDiffers(p) ==
    \/ startFiles[p] = NoRow
    \/ startFiles[p].mtime # IntMtime(fs[p].mtime)
    \/ startFiles[p].size # SizeOf(fs[p].text)

\* C1, as stated: a candidate within the size ceiling is read and queued if and
\* only if the store has no metadata for it or the stored mtime or size differs;
\* when both are equal it is neither read nor written.
C1_ReadAndQueuedIffChanged ==
    TreeAsScanned =>
        \A p \in Visited :
            WithinCeiling(p) =>
                /\ (p \in readTry /\ p \in queued) <=> StoredDiffers(p)
                /\ ~StoredDiffers(p) => p \notin readTry /\ files[p] = startFiles[p]

\* C1, amended: a candidate within the size ceiling is read if and only if the
\* store has no metadata for it or the stored mtime or size differs from the
\* current integer mtime or size, and it is queued if and only if it is moreover
\* readable; when both are equal it is neither read, queued nor written.
C1_ChangeDetection ==
    TreeAsScanned =>
        \A p \in Visited :
            WithinCeiling(p) =>
                /\ p \in readTry <=> StoredDiffers(p)
                /\ p \in queued <=> (StoredDiffers(p) /\ fs[p].readable)
                /\ ~StoredDiffers(p) => files[p] = startFiles[p]

\* A file whose content and size are those stored and whose mtime alone has
\* changed has been queued again.
C1_Witness ==
    /\ TreeAsScanned
    /\ \E p \in Visited :
        /\ WithinCeiling(p)
        /\ p \in queued
        /\ startFiles[p] # NoRow
        /\ startFiles[p].content = Redact(fs[p].text)
        /\ startFiles[p].size = SizeOf(fs[p].text)
        /\ startFiles[p].mtime # IntMtime(fs[p].mtime)

\* What C2 says of a second pass: nothing read, nothing written, every row as it was.
SecondPassIdle ==
    /\ queued = {}
    /\ status.indexed_files = 0
    /\ files = startFiles

\* C2, as stated: after two completed passes with no change of the tree in
\* between, the second has read no content, written no row (indexed_files is 0)
\* and left every stored row identical.
C2_RescanIdempotent ==
    (pc = "idle" /\ quiet = 2) => SecondPassIdle

\* C2, amended: the same, when the first of the two passes completed without a
\* storage error.
C2_RescanIdempotentAfterCleanPass ==
    (pc = "idle" /\ quiet = 2 /\ ~prevFault) => SecondPassIdle

\* A second pass over an unchanged tree with an indexed file in it has ended.
C2_Witness ==
    /\ pc = "idle" /\ quiet = 2 /\ ~prevFault
    /\ \E p \in Paths : WithinCeiling(p) /\ fs[p].readable /\ files[p] # NoRow

\* C3: after a completed pass the store has no row for a path the pass did not
\* observe.
C3_UnobservedPathRemoved ==
    (pc = "idle" /\ fresh) =>
        \A p \in Paths : fs[p] = Absent => files[p] = NoRow

\* C4: a batch that reaches the configured size is flushed, and when a pass ends
\* without a storage error every readable candidate within the size ceiling has
\* a row with the (mtime, size) the pass observed.
C4_NoRowLeftUnwritten ==
    /\ (pc = "loop" /\ ~passFault) => Len(batch) < BatchSize
    /\ (pc = "idle" /\ fresh /\ ~passFault) =>
        \A p \in Paths :
            (WithinCeiling(p) /\ fs[p].readable) =>
                /\ files[p] # NoRow
                /\ files[p].mtime = IntMtime(fs[p].mtime)
                /\ files[p].size = SizeOf(fs[p].text)

\* A pass has ended without a storage error after writing its two files, the
\* first flush being the one of a full batch.
C4_Witness ==
    /\ pc = "idle" /\ fresh /\ ~passFault
    /\ status.indexed_files = BatchSize
    /\ \A p \in Paths : WithinCeiling(p) /\ fs[p].readable /\ files[p] # NoRow

\* C11: in the iteration of a candidate whose stat() raises, or whose
\* read_text raises, the error count grows by one, the store and the batch stay
\* as they are and the pass goes on to the next candidate.
C11_PerFileErrorCounted ==
    [][ ( /\ pc = "loop" /\ pos <= Len(cands) /\ pos' = pos + 1
          /\ \/ fs[cands[pos]] = NoStat
             \/ /\ cands[pos] \in readTry' \ readTry
                /\ ~fs[cands[pos]].readable )
        => /\ status'.errors = status.errors + 1
           /\ pc' = "loop"
           /\ files' = files /\ batch' = batch ]_vars

\* C12: a batch whose upsert_files raised is not kept for a later flush, and the
\* write connection is left able to begin a transaction.
C12_FailedBatchDropped ==
    /\ pc = "loop" => Len(batch) < BatchSize
    /\ ~inTx

\* C26: the store has no row for a file that lies in the workspace root itself
\* (top.py here; AGENTS.md, install.sh in a real workspace).
C26_RootFilesNotStored ==
    \A p \in Paths : Len(p) = 1 => files[p] = NoRow

\* A step that ends a pass: the last step of a pass that walked, or the
\* whole of a pass that found no root directory.
PassEndStep ==
    \/ pc = "loop" /\ pc' = "idle"
    \/ pc = "idle" /\ pc' = "idle" /\ ~rootOk /\ status' # status

\* C31: while a pass is in progress none of last_scan_ts, scanned_files,
\* indexed_files and errors changes, and every step that ends a pass (one
\* that ends early on a missing root included) sets the timestamp and the
\* counts of that pass.
C31_StatusWrittenAtPassEnd ==
    [][/\ (pc = "loop" /\ pc' = "loop") => Counters(status') = Counters(status)
       /\ PassEndStep =>
              /\ status'.last_scan_ts = now
              /\ status'.scanned_files = (IF pc = "loop" THEN scanned ELSE 0)
              /\ status'.indexed_files = (IF pc = "loop" THEN indexed' ELSE 0)]_vars

\* The two halves of C31, each alone.
StatusStillInPass ==
    [][(pc = "loop" /\ pc' = "loop") => Counters(status') = Counters(status)]_vars
StatusSetAtPassEnd ==
    [][PassEndStep => status'.last_scan_ts = now]_vars

\* C32: every row of the store has as repo the first segment of its path, or
\* "__root__" when the path has one segment only, and a size within the
\* ceiling max_file_bytes.
C32_RowsHaveRepoAndSize ==
    \A p \in Paths :
        files[p] # NoRow =>
            /\ files[p].repo = (IF Len(p) = 1 THEN "__root__" ELSE p[1])
            /\ files[p].size <= MaxFileBytes

\* A pass has ended that stored the file of the root directory and passed
\* over a file above the ceiling.
C32_Witness ==
    /\ pc = "idle" /\ fresh
    /\ files[<<"top.py">>] # NoRow
    /\ files[<<"top.py">>].repo = "__root__"
    /\ fs[<<"a", "x.py">>] \notin {Absent, NoStat}
    /\ SizeOf(fs[<<"a", "x.py">>].text) > MaxFileBytes
    /\ files[<<"a", "x.py">>] = NoRow

\* The paths whose row a call of upsert_files that returned has written since
\* the pass began: a row is queued only if its mtime or size differs from the
\* stored one, so each of them differs from the row of the start.
WrittenInPass == {p \in Paths : files[p] # startFiles[p]}

\* C40: when a pass that walked the tree has ended, indexed_files is at most
\* scanned_files and is the number of rows of the calls of upsert_files that
\* returned during the pass, a file counted once also when a flush of its
\* rows had raised before.
C40_IndexedCountsUpserted ==
    (pc = "idle" /\ fresh) =>
        /\ status.indexed_files <= status.scanned_files
        /\ status.indexed_files = Cardinality(WrittenInPass)
        /\ WrittenInPass \subseteq queued

\* A pass has ended in which the flush of the full batch raised and the last
\* flush wrote its two rows: both are counted, once.
C40_Witness ==
    /\ pc = "idle" /\ fresh /\ passFault
    /\ status.errors >= 1
    /\ status.indexed_files = BatchSize
    /\ Cardinality(WrittenInPass) = BatchSize

----------------------------------------------------------------------------
(* Indexer._scan_once reduced to its walk and its status writes, as the loop  *)
(* and a concurrent reader of the status see it.  pc is "walk", then "ts",    *)
(* "scanned", "indexed" (the statement the pass is about to execute).         *)

\* What the loop and the reduced pass leave alone.
LoopOuter == UNCHANGED <<fsVars, dbVars, histVars, cands, pos, batch, dbcVars,
                         srchVars, redVars, ftsVars, stVars, extVars>>

\* The fields of a status in the order _tool_status reads them, and those read
\* before field f.
ReadOrder == <<"index_ready", "last_scan_ts", "scanned_files", "indexed_files", "errors">>
ReadBefore(f) ==
    {ReadOrder[i] : i \in {j \in 1..Len(ReadOrder) :
                              \E k \in (j + 1)..Len(ReadOrder) : ReadOrder[k] = f}}

\* Status st has, in the counters read before field f, the values of sn.
Agrees(st, sn, f) ==
    \A g \in ReadBefore(f) \ {"index_ready"} : st[g] = sn[g]

\* A pass ends: the status it leaves is one a reader may be given.
PassEnds ==
    /\ stable' = Counters(status')
    /\ okSnaps' = IF rpc \in {"idle", "done"} \/ ~Agrees(status', snap, rpc)
                  THEN okSnaps
                  ELSE okSnaps \cup {Counters(status')}
    /\ UNCHANGED <<rpc, snap>>

\* A pass begins: _scan_once is entered.
EnterPass ==
    /\ pc' = "walk"
    /\ pending' = FALSE
    /\ afterStop' = IF stopEv /\ afterStop < 2 THEN afterStop + 1 ELSE afterStop

\* Where run_forever goes on when _scan_once returns: line 81 after the first
\* pass, line 83 after a pass of the loop.
AfterPass == IF lpc = "first" THEN "ready" ELSE "while"

\* A pass that lets the missing root raise out of _scan_once and run_forever.
PassRootMissingRaises ==
    /\ pc = "walk" /\ ~rootOk
    /\ pc' = "idle"
    /\ lpc' = "done"
    /\ UNCHANGED <<status, scanned, indexed, now, stopEv, rescanEv, spc, pending,
                   afterStop>>
    /\ LoopOuter /\ PassEnds

\* Lines 93-95: the root is no directory.  The count stops at MaxErrors.
PassRootMissing ==
    /\ pc = "walk" /\ ~rootOk
    /\ status' = [status EXCEPT !.errors = IF @ < MaxErrors THEN @ + 1 ELSE @]
    /\ pc' = "idle"
    /\ lpc' = AfterPass
    /\ UNCHANGED <<scanned, indexed, now, stopEv, rescanEv, spc, pending, afterStop>>
    /\ LoopOuter /\ PassEnds

\* Line 141: an error of one candidate, counted while the walk goes on.
PassCountError ==
    /\ pc = "walk" /\ rootOk
    /\ status.errors < MaxErrors
    /\ CountError
    /\ UNCHANGED <<pc, scanned, indexed, now, loopVars>>
    /\ LoopOuter /\ UNCHANGED rdVars

\* Lines 97-148: the walk ends with its two counts.
PassWalk ==
    /\ pc = "walk" /\ rootOk
    /\ \E n \in 0..MaxCount : \E m \in 0..n : scanned' = n /\ indexed' = m
    /\ pc' = "ts"
    /\ UNCHANGED <<status, now, loopVars>>
    /\ LoopOuter /\ UNCHANGED rdVars

\* Line 150.
PassWriteTs ==
    /\ pc = "ts"
    /\ status' = [status EXCEPT !.last_scan_ts = now]
    /\ pc' = "scanned"
    /\ UNCHANGED <<scanned, indexed, now, loopVars>>
    /\ LoopOuter /\ UNCHANGED rdVars

\* Line 151.
PassWriteScanned ==
    /\ pc = "scanned"
    /\ status' = [status EXCEPT !.scanned_files = scanned]
    /\ pc' = "indexed"
    /\ UNCHANGED <<scanned, indexed, now, loopVars>>
    /\ LoopOuter /\ UNCHANGED rdVars

\* Line 152, and the return.
PassWriteIndexed ==
    /\ pc = "indexed"
    /\ status' = [status EXCEPT !.indexed_files = indexed]
    /\ pc' = "idle"
    /\ lpc' = AfterPass
    /\ UNCHANGED <<scanned, indexed, now, stopEv, rescanEv, spc, pending, afterStop>>
    /\ LoopOuter /\ PassEnds

----------------------------------------------------------------------------
(* Indexer.run_forever, stop, request_rescan. *)

\* A run_forever that declares readiness before its first pass.
LoopStartReadyFirst ==
    /\ lpc = "start"
    /\ lpc' = "first"
    /\ EnterPass
    /\ status' = [status EXCEPT !.index_ready = TRUE]
    /\ UNCHANGED <<scanned, indexed, now, stopEv, rescanEv, spc>>
    /\ LoopOuter /\ UNCHANGED rdVars

\* Line 80: the first pass is called.
LoopStart ==
    /\ lpc = "start"
    /\ lpc' = "first"
    /\ EnterPass
    /\ UNCHANGED <<scanned, indexed, status, now, stopEv, rescanEv, spc>>
    /\ LoopOuter /\ UNCHANGED rdVars

\* Line 81.
SetReady ==
    /\ lpc = "ready"
    /\ status' = [status EXCEPT !.index_ready = TRUE]
    /\ lpc' = "while"
    /\ UNCHANGED <<pc, scanned, indexed, now, stopEv, rescanEv, spc, pending, afterStop>>
    /\ LoopOuter /\ UNCHANGED rdVars

\* What a step of the loop outside a pass leaves alone.
LoopInner == UNCHANGED <<pc, scanned, indexed, status, now>>

\* A loop that clears the trigger before it waits (instead of after).
LoopTestClearing ==
    /\ lpc = "while"
    /\ lpc' = IF stopEv THEN "done" ELSE "wait"
    /\ rescanEv' = FALSE
    /\ UNCHANGED <<stopEv, spc, pending, afterStop>>
    /\ LoopInner /\ LoopOuter /\ UNCHANGED rdVars

\* Line 83: while not self._stop.is_set().
LoopTest ==
    /\ lpc = "while"
    /\ lpc' = IF stopEv THEN "done" ELSE "wait"
    /\ UNCHANGED <<stopEv, rescanEv, spc, pending, afterStop>>
    /\ LoopInner /\ LoopOuter /\ UNCHANGED rdVars

\* Line 85: self._rescan.wait(timeout) returns because the event is set.
WaitWake ==
    /\ lpc = "wait"
    /\ rescanEv
    /\ lpc' = "clear"
    /\ UNCHANGED <<stopEv, rescanEv, spc, pending, afterStop>>
    /\ LoopInner /\ LoopOuter /\ UNCHANGED rdVars

\* Line 85: the wait returns because the interval has elapsed.
WaitTimeout ==
    /\ lpc = "wait"
    /\ ~rescanEv
    /\ lpc' = "clear"
    /\ UNCHANGED <<stopEv, rescanEv, spc, pending, afterStop>>
    /\ LoopInner /\ LoopOuter /\ UNCHANGED rdVars

\* Line 86.
LoopClear ==
    /\ lpc = "clear"
    /\ rescanEv' = FALSE
    /\ lpc' = "check"
    /\ UNCHANGED <<stopEv, spc, pending, afterStop>>
    /\ LoopInner /\ LoopOuter /\ UNCHANGED rdVars

\* Lines 87-88.
LoopCheck ==
    /\ lpc = "check"
    /\ lpc' = IF stopEv THEN "done" ELSE "call"
    /\ UNCHANGED <<stopEv, rescanEv, spc, pending, afterStop>>
    /\ LoopInner /\ LoopOuter /\ UNCHANGED rdVars

\* Line 89: a pass of the loop is called.
LoopCall ==
    /\ lpc = "call"
    /\ lpc' = "scan"
    /\ EnterPass
    /\ UNCHANGED <<scanned, indexed, status, now, stopEv, rescanEv, spc>>
    /\ LoopOuter /\ UNCHANGED rdVars

\* stop(), line 71.
Stop1 ==
    /\ spc = "none"
    /\ stopEv' = TRUE
    /\ spc' = "half"
    /\ UNCHANGED <<lpc, rescanEv, pending, afterStop>>
    /\ LoopInner /\ LoopOuter /\ UNCHANGED rdVars

\* A stop() that sets _stop only.
Stop2NoWake ==
    /\ spc = "half"
    /\ spc' = "done"
    /\ UNCHANGED <<lpc, stopEv, rescanEv, pending, afterStop>>
    /\ LoopInner /\ LoopOuter /\ UNCHANGED rdVars

\* stop(), line 72.
Stop2 ==
    /\ spc = "half"
    /\ rescanEv' = TRUE
    /\ spc' = "done"
    /\ UNCHANGED <<lpc, stopEv, pending, afterStop>>
    /\ LoopInner /\ LoopOuter /\ UNCHANGED rdVars

\* request_rescan(), line 76.  The request is one the loop owes a pass to when
\* run_forever is running and _stop is not set.
RequestRescan ==
    /\ rescanEv' = TRUE
    /\ pending' = IF lpc \notin {"start", "done"} /\ ~stopEv THEN TRUE ELSE pending
    /\ UNCHANGED <<lpc, stopEv, spc, afterStop>>
    /\ LoopInner /\ LoopOuter /\ UNCHANGED rdVars

\* The steps of the thread that runs run_forever, the elapsing of the interval
\* and the errors of the candidates of a pass excepted.
LoopThread ==
    \/ LoopStart \/ SetReady \/ LoopTest \/ WaitWake \/ LoopClear \/ LoopCheck
    \/ LoopCall \/ PassRootMissing \/ PassWalk \/ PassWriteTs \/ PassWriteScanned
    \/ PassWriteIndexed

NextLoop ==
    \/ LoopStart
    \/ SetReady
    \/ LoopTest
    \/ WaitWake
    \/ WaitTimeout
    \/ LoopClear
    \/ LoopCheck
    \/ LoopCall
    \/ PassRootMissing
    \/ PassCountError
    \/ PassWalk
    \/ PassWriteTs
    \/ PassWriteScanned
    \/ PassWriteIndexed
    \/ Stop1
    \/ Stop2
    \/ RequestRescan
    \/ RemoveRoot
    \/ CreateRoot

SpecLoop == Init /\ [][NextLoop]_vars

\* The thread of run_forever keeps running, and so does a caller inside stop();
\* nothing is assumed of the interval timer, nor of whether stop() or
\* request_rescan() are ever called.
SpecLoopFair == SpecLoop /\ WF_vars(LoopThread) /\ WF_vars(Stop2)

----------------------------------------------------------------------------
(* LocalSearchMCPServer._tool_status against the running loop. *)

\* What the clock and the status reader leave alone.
ReaderOuter == UNCHANGED <<fsVars, dbVars, histVars, loopVars, pc, cands, pos,
                           scanned, indexed, batch, status, dbcVars, srchVars,
                           redVars, ftsVars, stVars, extVars>>

\* time.time() moves on.
Tick ==
    /\ now < MaxTime
    /\ now' = now + 1
    /\ UNCHANGED rdVars
    /\ ReaderOuter

\* Where Counters has the field.
CounterIndex(field) ==
    CHOOSE i \in 1..4 : ReadOrder[i + 1] = field

\* _tool_status is called (server.py line 489).
ReadCall ==
    /\ rpc \in {"idle", "done"}
    /\ rpc' = "index_ready"
    /\ snap' = StatusInit
    /\ okSnaps' = {stable}
    /\ UNCHANGED <<stable, now>>
    /\ ReaderOuter

\* Lines 493-497: one attribute of self.indexer.status is read per step.
ReadField(field, next) ==
    /\ rpc = field
    /\ snap' = [snap EXCEPT ![field] = status[field]]
    /\ rpc' = next
    /\ okSnaps' = IF field = "index_ready" THEN okSnaps
                  ELSE {c \in okSnaps : c[CounterIndex(field)] = status[field]}
    /\ UNCHANGED <<stable, now>>
    /\ ReaderOuter

NextStatus ==
    \/ LoopStart
    \/ SetReady
    \/ LoopTest
    \/ WaitTimeout
    \/ LoopClear
    \/ LoopCheck
    \/ LoopCall
    \/ PassRootMissing
    \/ PassCountError
    \/ PassWalk
    \/ PassWriteTs
    \/ PassWriteScanned
    \/ PassWriteIndexed
    \/ Tick
    \/ ReadCall
    \/ ReadField("index_ready", "last_scan_ts")
    \/ ReadField("last_scan_ts", "scanned_files")
    \/ ReadField("scanned_files", "indexed_files")
    \/ ReadField("indexed_files", "errors")
    \/ ReadField("errors", "done")
    \/ RemoveRoot

SpecStatus == Init /\ [][NextStatus]_vars

\* C10: the counters a status read returns are those of one completed pass: the
\* status as some pass that ended left it (or the initial status), no older
\* than the one in place when the read began.
C10_StatusSnapshotConsistent ==
    rpc = "done" => okSnaps # {}

----------------------------------------------------------------------------
(* LocalSearchDB.upsert_files and delete_files, statement by statement, called  *)
(* by two threads; reads on the read connection.                                *)

\* What the callers of the store leave alone.
DbOuter == UNCHANGED <<fsVars, scanVars, histVars, loopVars, rdVars, srchVars,
                       redVars, ftsVars, stVars, extVars>>

\* The batches of the model: each writes every path, with one version (kept in
\* mtime) throughout, or deletes every path.
VersionRows(v) ==
    [i \in 1..Len(WalkOrder) |->
        [path |-> WalkOrder[i], repo |-> RepoOf(WalkOrder[i]), mtime |-> v,
         size |-> 1, content |-> <<PlainLine>>]]

Batches ==
    { [kind |-> "upsert", rows |-> VersionRows(1)],
      [kind |-> "upsert", rows |-> VersionRows(2)],
      [kind |-> "delete", rows |-> WalkOrder] }

\* One statement of executemany on a table.
ApplyStatement(table, op, i) ==
    IF op.kind = "upsert"
    THEN [table EXCEPT ![op.rows[i].path] = Row(op.rows[i])]
    ELSE [table EXCEPT ![op.rows[i]] = NoRow]

\* upsert_files / delete_files is called with a non-empty batch (an empty one
\* returns 0 at once and touches nothing).
WCall(t, op) ==
    /\ wpc[t] = "idle"
    /\ wop' = [wop EXCEPT ![t] = op]
    /\ wpc' = [wpc EXCEPT ![t] = "acquire"]
    /\ UNCHANGED <<dbVars, lock, work, widx, rseen, txLog, torn, clash, rDuring>>
    /\ DbOuter

\* A writer that does not take the lock.
WAcquireNoLock(t) ==
    /\ wpc[t] = "acquire"
    /\ wpc' = [wpc EXCEPT ![t] = "begin"]
    /\ UNCHANGED <<dbVars, lock, work, wop, widx, rseen, txLog, torn, clash, rDuring>>
    /\ DbOuter

\* with self._lock (db.py lines 155, 177).
WAcquire(t) ==
    /\ wpc[t] = "acquire"
    /\ lock = "none"
    /\ lock' = t
    /\ wpc' = [wpc EXCEPT ![t] = "begin"]
    /\ UNCHANGED <<dbVars, work, wop, widx, rseen, txLog, torn, clash, rDuring>>
    /\ DbOuter

\* The exception leaves the with block: the lock is released if held.
Raised(t) ==
    /\ lock' = IF lock = t THEN "none" ELSE lock
    /\ wpc' = [wpc EXCEPT ![t] = "idle"]

\* cur.execute("BEGIN") (lines 157, 179).
WBegin(t) ==
    /\ wpc[t] = "begin"
    /\ IF inTx
       THEN \* cannot start a transaction within a transaction
            /\ Raised(t)
            /\ clash' = (clash \/ \E u \in Writers \ {t} : wpc[u] \in {"exec", "commit"})
            /\ UNCHANGED <<dbVars, work, widx, txLog>>
       ELSE /\ inTx' = TRUE
            /\ work' = files
            /\ txLog' = <<>>
            /\ widx' = [widx EXCEPT ![t] = 1]
            /\ wpc' = [wpc EXCEPT ![t] = "exec"]
            /\ UNCHANGED <<files, lock, clash>>
    /\ UNCHANGED <<wop, rseen, torn, rDuring>>
    /\ DbOuter

\* One statement of cur.executemany (lines 158-169, 180).
WExec(t) ==
    /\ wpc[t] = "exec"
    /\ work' = ApplyStatement(work, wop[t], widx[t])
    /\ txLog' = Append(txLog, <<t, widx[t]>>)
    /\ widx' = [widx EXCEPT ![t] = @ + 1]
    /\ wpc' = [wpc EXCEPT ![t] = IF widx[t] = Len(wop[t].rows) THEN "commit" ELSE "exec"]
    /\ UNCHANGED <<dbVars, lock, wop, rseen, torn, clash, rDuring>>
    /\ DbOuter

\* executemany or commit raises.  Nothing is committed; the transaction stays
\* open with the statements executed so far, unless SQLite rolled it back.
WRaise(t) ==
    /\ wpc[t] \in {"exec", "commit"}
    /\ Raised(t)
    /\ \/ /\ inTx' = TRUE
          /\ UNCHANGED <<work, txLog>>
       \/ /\ inTx' = FALSE
          /\ work' = files
          /\ txLog' = <<>>
    /\ UNCHANGED <<files, wop, widx, rseen, torn, clash, rDuring>>
    /\ DbOuter

\* self._write.commit() (lines 170, 181).
WCommit(t) ==
    /\ wpc[t] = "commit"
    /\ files' = work
    /\ inTx' = FALSE
    /\ torn' = (torn \/ txLog # [i \in 1..Len(wop[t].rows) |-> <<t, i>>])
    /\ txLog' = <<>>
    /\ wpc' = [wpc EXCEPT ![t] = "release"]
    /\ UNCHANGED <<lock, work, wop, widx, rseen, clash, rDuring>>
    /\ DbOuter

\* The with block is left: the lock is released, the call returns.
WRelease(t) ==
    /\ wpc[t] = "release"
    /\ lock' = IF lock = t THEN "none" ELSE lock
    /\ wpc' = [wpc EXCEPT ![t] = "idle"]
    /\ UNCHANGED <<dbVars, work, wop, widx, rseen, txLog, torn, clash, rDuring>>
    /\ DbOuter

\* A read of the table in one statement on the read connection (list_files,
\* the SELECT of search_v2 and of repo_candidates; get_file_meta reads one row
\* of it).  It takes no lock.
ReadFiles ==
    /\ rseen' = ReadTable
    /\ rDuring' = (inTx /\ work # files)
    /\ UNCHANGED <<dbVars, lock, work, wpc, wop, widx, txLog, torn, clash>>
    /\ DbOuter

NextDB ==
    \/ \E t \in Writers, op \in Batches : WCall(t, op)
    \/ \E t \in Writers : WAcquire(t)
    \/ \E t \in Writers : WBegin(t)
    \/ \E t \in Writers : WExec(t)
    \/ \E t \in Writers : WRaise(t)
    \/ \E t \in Writers : WCommit(t)
    \/ \E t \in Writers : WRelease(t)
    \/ ReadFiles

SpecDB == Init /\ [][NextDB]_vars

\* The threads between BEGIN and the end of commit.
InTransaction == {t \in Writers : wpc[t] \in {"exec", "commit"}}

\* C8 (under SpecDB): at most one batch is inside its transaction, and it holds
\* the lock; the statements of the open transaction are those of one batch, in
\* its order; every commit publishes exactly one whole batch; and no batch fails
\* on the running transaction of another.
C8_WritesSerialised ==
    /\ Cardinality(InTransaction) <= 1
    /\ \A t \in InTransaction : lock = t
    /\ \E t \in Writers : \A i \in 1..Len(txLog) : txLog[i] = <<t, i>>
    /\ ~torn
    /\ ~clash

\* A batch is half executed while the other caller waits for the lock.
C8_Witness ==
    /\ \E t \in Writers : \E u \in Writers \ {t} :
        /\ wpc[t] = "exec" /\ widx[t] = 2
        /\ wpc[u] = "acquire"
    /\ files # work

\* Every batch of the model gives all paths one version, so rows that reflect
\* whole batches only are the same at every path.
Whole(table) ==
    \A p, q \in Paths :
        /\ (table[p] = NoRow) <=> (table[q] = NoRow)
        /\ (table[p] # NoRow /\ table[q] # NoRow) => table[p].mtime = table[q].mtime

----------------------------------------------------------------------------
(* LocalSearchDB.search_v2: options, filters, scores.                          *)

\* What the searches leave alone.
SearchOuter == UNCHANGED <<fsVars, dbVars, scanVars, histVars, loopVars, rdVars,
                           dbcVars, redVars, stVars, extVars>>

\* The fields of the dataclass SearchOptions (db.py lines 25-38).
OptionFields ==
    {"query", "repo", "limit", "snippet_lines", "file_types", "path_pattern",
     "exclude_patterns", "recency_boost", "use_regex", "case_sensitive"}

\* The defaults of the fields the searches of the model read.
OptionDefaults ==
    [query |-> "", limit |-> 20, file_types |-> <<>>, path_pattern |-> <<>>,
     exclude_patterns |-> <<>>, recency_boost |-> FALSE, use_regex |-> FALSE]

\* SearchOptions(**kw): a keyword that is no field raises TypeError; a field
\* that is not given has its default.
SearchOptionsRaises(kw) == ~(DOMAIN kw \subseteq OptionFields)
SearchOptions(kw) == kw @@ OptionDefaults

\* str.lower() on the parts of the model.
Lower(a) == IF a = "PY" THEN "py" ELSE IF a = "MD" THEN "md" ELSE a

\* fnmatch.fnmatch(name, pat): "*" matches any run of parts, "/" included.
RECURSIVE Fnmatch(_, _)
Fnmatch(name, pat) ==
    IF pat = <<>> THEN name = <<>>
    ELSE IF Head(pat) = "*"
         THEN \E k \in 0..Len(name) :
                  Fnmatch(SubSeq(name, k + 1, Len(name)), Tail(pat))
         ELSE /\ name # <<>>
              /\ Head(name) = Head(pat)
              /\ Fnmatch(Tail(name), Tail(pat))

\* p in path, for strings.
Within(p, path) ==
    \E k \in 0..(Len(path) - Len(p)) : SubSeq(path, k + 1, k + Len(p)) = p

\* ft.lstrip('.')
RECURSIVE LStripDot(_)
LStripDot(ft) ==
    IF ft # <<>> /\ Head(ft) = "." THEN LStripDot(Tail(ft)) ELSE ft

\* _get_file_extension: the suffix of the path without its dot, in lower case.
GetFileExtension(path) ==
    IF Len(path) >= 3 /\ path[Len(path) - 1] = "." /\ path[Len(path) - 2] # "/"
    THEN <<Lower(path[Len(path)])>>
    ELSE <<>>

\* _matches_file_types
MatchesFileTypes(path, fileTypes) ==
    \/ fileTypes = <<>>
    \/ \E i \in 1..Len(fileTypes) :
           GetFileExtension(path) =
               [j \in 1..Len(LStripDot(fileTypes[i])) |-> Lower(LStripDot(fileTypes[i])[j])]

\* _matches_path_pattern
MatchesPathPattern(path, pattern) ==
    \/ pattern = <<>>
    \/ Fnmatch(path, pattern)
    \/ Fnmatch(path, <<"*", "*", "/">> \o pattern)

\* _matches_exclude_patterns
MatchesExcludePatterns(path, patterns) ==
    \E i \in 1..Len(patterns) :
        \/ Within(patterns[i], path)
        \/ Fnmatch(path, <<"*">> \o patterns[i] \o <<"*">>)

\* A search that leaves the exclude patterns out.
PassesFiltersNoExclude(path, o) ==
    /\ MatchesFileTypes(path, o.file_types)
    /\ MatchesPathPattern(path, o.path_pattern)

\* The three filters of _process_rows (lines 604-610) and _search_regex (lines 560-565).
PassesFilters(path, o) ==
    /\ MatchesFileTypes(path, o.file_types)
    /\ MatchesPathPattern(path, o.path_pattern)
    /\ ~MatchesExcludePatterns(path, o.exclude_patterns)

\* The content of a row is here its sequence of words; a query is one word.
\* content.count(query), len(pattern.findall(content)).
CountMatches(content, q) == Cardinality({i \in 1..Len(content) : content[i] = q})

\* re.compile(query) raises re.error; the FTS5 engine rejects the query.
RegexCompiles(q) == q # "("
FtsAccepts(q) == q # "("

\* bm25(files_fts) of a matching row: negative, lower for a better match.
Bm25(content, q) == 0 - CountMatches(content, q)

\* time.time(), in days: the clock of the model counts the days after Epoch.
Epoch == 40
Today(t) == Epoch + t

\* A boost whose first step includes the age of one day.
RecencyBoostWithinDay(mtime, t) ==
    LET age == Today(t) - mtime
    IN  IF age <= 1 THEN 15 ELSE IF age < 7 THEN 13 ELSE IF age < 30 THEN 11 ELSE 10

\* _calculate_recency_score: the factor by which the score grows, in tenths.
RecencyBoost(mtime, t) ==
    LET age == Today(t) - mtime
    IN  IF age < 1 THEN 15 ELSE IF age < 7 THEN 13 ELSE IF age < 30 THEN 11 ELSE 10

\* A score, in tenths: the base score, boosted or not.
Scored(base, mtime, o, t) ==
    IF o.recency_boost THEN base * RecencyBoost(mtime, t) ELSE base * 10

----------------------------------------------------------------------------
(* LocalSearchDB.search_v2: the queries, the sort, the result.                  *)

Min(a, b) == IF a < b THEN a ELSE b
\* seq[:n] of Python: a negative n counts from the end of seq.
Take(seq, n) ==
    IF n >= 0 THEN SubSeq(seq, 1, Min(n, Len(seq)))
    ELSE IF Len(seq) + n > 0 THEN SubSeq(seq, 1, Len(seq) + n) ELSE <<>>

\* LIMIT n of SQLite: a negative n is no limit.
SqlLimit(rows, n) ==
    IF n < 0 THEN rows ELSE SubSeq(rows, 1, Min(n, Len(rows)))

\* A sort that puts an element before the elements of equal key.
RECURSIVE InsertBeforeEqual(_, _)
InsertBeforeEqual(x, seq) ==
    IF seq = <<>> THEN <<x>>
    ELSE IF x.k <= Head(seq).k THEN <<x>> \o seq
         ELSE <<Head(seq)>> \o InsertBeforeEqual(x, Tail(seq))

\* The stable sort of records by ascending key k: an element goes after the
\* elements of equal key that came before it.
RECURSIVE InsertSorted(_, _)
InsertSorted(x, seq) ==
    IF seq = <<>> THEN <<x>>
    ELSE IF x.k < Head(seq).k THEN <<x>> \o seq
         ELSE <<Head(seq)>> \o InsertSorted(x, Tail(seq))

RECURSIVE StableSort(_)
StableSort(seq) ==
    IF seq = <<>> THEN <<>>
    ELSE InsertSorted(seq[Len(seq)], StableSort(SubSeq(seq, 1, Len(seq) - 1)))

\* ORDER BY of a SELECT over the rows ids (given in path order), by ascending
\* key; key is a function of the id.
OrderBy(ids, key) ==
    LET sorted == StableSort([j \in 1..Len(ids) |-> [k |-> key[ids[j]], v |-> ids[j]]])
    IN  [j \in 1..Len(ids) |-> sorted[j].v]

\* A sort of the hits that reverses the hits of equal score.
RECURSIVE SortTiesReversed(_)
SortTiesReversed(seq) ==
    IF seq = <<>> THEN <<>>
    ELSE InsertBeforeEqual(seq[Len(seq)], SortTiesReversed(SubSeq(seq, 1, Len(seq) - 1)))

SortHitsTiesReversed(hits) ==
    LET sorted == SortTiesReversed([j \in 1..Len(hits) |-> [k |-> 0 - hits[j].score, v |-> hits[j]]])
    IN  [j \in 1..Len(hits) |-> sorted[j].v]

\* hits.sort(key=lambda h: h.score, reverse=True)
SortHits(hits) ==
    LET sorted == StableSort([j \in 1..Len(hits) |-> [k |-> 0 - hits[j].score, v |-> hits[j]]])
    IN  [j \in 1..Len(hits) |-> sorted[j].v]

\* The ids of the rows of the table, in path order.
RowIds(tab) == SelectSeq([i \in 1..Len(DocPaths) |-> i], LAMBDA i : tab[i] # NoRow)

FetchLimit(o) ==
    IF o.file_types # <<>> \/ o.path_pattern # <<>> \/ o.exclude_patterns # <<>>
    THEN o.limit * 5 ELSE o.limit

Hit(tab, i, score, q) ==
    [doc |-> i, path |-> DocPaths[i], score |-> score,
     match_count |-> CountMatches(tab[i].content, q)]

\* _process_rows: filter, score (the negated base score, boosted), sort.
ProcessRows(tab, rows, base, o, t) ==
    LET kept == SelectSeq(rows, LAMBDA i : PassesFilters(DocPaths[i], o))
    IN  SortHits([j \in 1..Len(kept) |->
            Hit(tab, kept[j], Scored(0 - base[kept[j]], tab[kept[j]].mtime, o, t),
                o.query)])

Answer(hits, meta, selects) ==
    [raised |-> "none", hits |-> hits, meta |-> meta, selects |-> selects]

\* _search_fts when the SELECT returns.
SearchFts(tab, o, meta, t) ==
    LET match == SelectSeq(RowIds(tab), LAMBDA i : CountMatches(tab[i].content, o.query) > 0)
        Rank == [i \in DOMAIN tab |->
                    IF tab[i] = NoRow THEN 0 ELSE Bm25(tab[i].content, o.query)]
        ByMtime == [i \in DOMAIN tab |-> IF tab[i] = NoRow THEN 0 ELSE 0 - tab[i].mtime]
        \* ORDER BY f.mtime DESC, score: by score, then (stable) by mtime
        rows == SqlLimit(IF o.recency_boost THEN OrderBy(OrderBy(match, Rank), ByMtime)
                     ELSE OrderBy(match, Rank), FetchLimit(o))
    IN  Answer(Take(ProcessRows(tab, rows, Rank, o, t), o.limit),
               [meta EXCEPT !.total_scanned = Len(rows)], <<"fts">>)

\* A substring search that does not flag the fallback.
SearchLikeUnflagged(tab, o, meta, t, tried) ==
    LET match == SelectSeq(RowIds(tab), LAMBDA i : CountMatches(tab[i].content, o.query) > 0)
        Zero == [i \in DOMAIN tab |-> 0]
        ByMtime == [i \in DOMAIN tab |-> IF tab[i] = NoRow THEN 0 ELSE 0 - tab[i].mtime]
        ByPath == [i \in DOMAIN tab |-> i]
        rows == SqlLimit(IF o.recency_boost THEN OrderBy(match, ByMtime)
                     ELSE OrderBy(match, ByPath), FetchLimit(o))
    IN  Answer(Take(ProcessRows(tab, rows, Zero, o, t), o.limit),
               [meta EXCEPT !.total_scanned = Len(rows)],
               tried \o <<"like">>)

\* _search_like; tried tells whether the SELECT of _search_fts was run before.
SearchLike(tab, o, meta, t, tried) ==
    LET match == SelectSeq(RowIds(tab), LAMBDA i : CountMatches(tab[i].content, o.query) > 0)
        Zero == [i \in DOMAIN tab |-> 0]
        ByMtime == [i \in DOMAIN tab |-> IF tab[i] = NoRow THEN 0 ELSE 0 - tab[i].mtime]
        ByPath == [i \in DOMAIN tab |-> i]
        rows == SqlLimit(IF o.recency_boost THEN OrderBy(match, ByMtime)
                     ELSE OrderBy(match, ByPath), FetchLimit(o))
    IN  Answer(Take(ProcessRows(tab, rows, Zero, o, t), o.limit),
               [meta EXCEPT !.fallback_used = TRUE, !.total_scanned = Len(rows)],
               tried \o <<"like">>)

\* The most rows _search_regex scans (LIMIT 5000).
RegexScanLimit == 5000

\* A regex search that scans the rows before it looks at the pattern.
SearchRegexScansFirst(tab, o, meta, t) ==
    LET meta1 == meta @@ [regex_mode |-> TRUE]
        rows == SqlLimit(RowIds(tab), RegexScanLimit)
    IN  IF ~RegexCompiles(o.query)
        THEN Answer(<<>>, [meta1 @@ [regex_error |-> "re.error"]
                              EXCEPT !.total_scanned = Len(rows)], <<"regex">>)
        ELSE
        LET kept == SelectSeq(rows, LAMBDA i :
                        /\ PassesFilters(DocPaths[i], o)
                        /\ CountMatches(tab[i].content, o.query) > 0)
            hits == [j \in 1..Len(kept) |->
                        Hit(tab, kept[j],
                            Scored(CountMatches(tab[kept[j]].content, o.query),
                                   tab[kept[j]].mtime, o, t),
                            o.query)]
        IN  Answer(Take(SortHits(hits), o.limit),
                   [meta1 EXCEPT !.total_scanned = Len(rows)], <<"regex">>)

\* _search_regex
SearchRegex(tab, o, meta, t) ==
    LET meta1 == meta @@ [regex_mode |-> TRUE]
    IN  IF ~RegexCompiles(o.query)
        THEN Answer(<<>>, meta1 @@ [regex_error |-> "re.error"], <<>>)
        ELSE
        LET ByMtime == [i \in DOMAIN tab |-> IF tab[i] = NoRow THEN 0 ELSE 0 - tab[i].mtime]
            ByPath == [i \in DOMAIN tab |-> i]
            rows == SqlLimit(IF o.recency_boost THEN OrderBy(RowIds(tab), ByMtime)
                         ELSE OrderBy(RowIds(tab), ByPath), RegexScanLimit)
            kept == SelectSeq(rows, LAMBDA i :
                        /\ PassesFilters(DocPaths[i], o)
                        /\ CountMatches(tab[i].content, o.query) > 0)
            hits == [j \in 1..Len(kept) |->
                        Hit(tab, kept[j],
                            Scored(CountMatches(tab[kept[j]].content, o.query),
                                   tab[kept[j]].mtime, o, t),
                            o.query)]
        IN  Answer(Take(SortHits(hits), o.limit),
                   [meta1 EXCEPT !.total_scanned = Len(rows)], <<"regex">>)

\* search_v2 (lines 422-447).  fts is the state of the full-text engine: "ok",
\* "raises" (the SELECT raises sqlite3.OperationalError), "disabled"
\* (self._fts_enabled is false).
SearchV2(tab, o, fts, t) ==
    LET meta == [fallback_used |-> FALSE, total_scanned |-> 0]
    IN  IF o.query = "" THEN Answer(<<>>, meta, <<>>)
        ELSE IF o.use_regex THEN SearchRegex(tab, o, meta, t)
        ELSE IF fts = "disabled" THEN SearchLike(tab, o, meta, t, <<>>)
        ELSE IF fts = "ok" /\ FtsAccepts(o.query) THEN SearchFts(tab, o, meta, t)
        ELSE SearchLike(tab, o, meta, t, <<"fts">>)

\* What a caller gets who builds SearchOptions from kw and calls search_v2.
SearchCall(tab, kw, fts, t) ==
    IF SearchOptionsRaises(kw)
    THEN [raised |-> "TypeError"]
    ELSE SearchV2(tab, SearchOptions(kw), fts, t)

----------------------------------------------------------------------------
(* SpecSearch: searches on a changing table.                                    *)

\* The largest limit of a search of the model.
MaxLimit == 2

Words(n) == [j \in 1..n |-> "def"]

\* The rows a path can have: other words, or "def" one, five or seven times; a
\* file of long ago, or of the day after Epoch.
DocRows(i) ==
    { Row([repo |-> DocPaths[i][1], mtime |-> r[2], size |-> Len(r[1]), content |-> r[1]]) :
        r \in { <<<<"xyz">>, 1>>, <<Words(1), 1>>, <<Words(5), Epoch + 1>>,
                <<Words(7), 1>> } }

\* The keyword arguments of the searches of the model.
FilteredSearches ==
    [query : {"def"}, limit : 1..MaxLimit,
     file_types : {<<>>, << <<".", "PY">> >>},
     path_pattern : {<<>>, <<"src", "/", "*">>},
     exclude_patterns : {<<>>, << <<"main">> >>},
     recency_boost : BOOLEAN, use_regex : BOOLEAN]

OddSearches == [query : {"", "("}, use_regex : BOOLEAN]

\* The searches of the tests and of _tool_search (server.py lines 347-360),
\* which give an offset and a total_mode.
PagedSearches ==
    { [query |-> "def", limit |-> 1, offset |-> k] : k \in 0..MaxLimit }
    \cup { [query |-> "def", total_mode |-> m] : m \in {"exact", "approx"} }

\* Searches with a limit that is not positive.
UnlimitedSearches ==
    [query : {"def"}, limit : {0, 0 - 1, 0 - MaxLimit},
     file_types : {<<>>, << <<".", "PY">> >>}, use_regex : BOOLEAN]

Searches == FilteredSearches \cup OddSearches \cup PagedSearches \cup UnlimitedSearches

\* _try_enable_fts: whether the SQLite of the process has FTS5.
TryEnableFts(fts5) == fts5

\* LocalSearchDB.__init__ (lines 57-73): the one assignment of _fts_enabled.
OpenStore(fts5) ==
    /\ ~opened
    /\ opened' = TRUE
    /\ fts_enabled' = TryEnableFts(fts5)
    /\ probes' = probes + 1
    /\ UNCHANGED <<fsVars, dbVars, scanVars, histVars, loopVars, rdVars, dbcVars,
                   srchVars, redVars, stVars, extVars>>

\* A row is written (or deleted) by the indexer.
IndexDoc(i, r) ==
    /\ opened
    /\ docs[i] # r
    /\ docs' = [docs EXCEPT ![i] = r]
    /\ sres' = NoCall
    /\ sreq' = NoSearch
    /\ UNCHANGED ftsVars
    /\ SearchOuter

\* The caller is done with the result of its search.
Discard ==
    /\ sres # NoCall
    /\ sres' = NoCall
    /\ sreq' = NoSearch
    /\ UNCHANGED docs
    /\ UNCHANGED ftsVars
    /\ SearchOuter

\* A search after which the store has given up the full-text engine.
SearchDropsFts ==
    /\ fts_enabled' = FALSE
    /\ UNCHANGED <<opened, probes>>

\* search_v2 and what it calls read self._fts_enabled (lines 440, 666) and
\* assign nothing of the instance.
SearchKeepsStore == UNCHANGED ftsVars

\* A caller builds the options and calls search_v2; match is what the MATCH
\* query does if it is run: "ok", or "raises" (sqlite3.OperationalError).
Search(kw, match) ==
    LET fts == IF fts_enabled THEN match ELSE "disabled" IN
    /\ opened
    /\ sres = NoCall
    /\ sreq' = [kw |-> kw, fts |-> fts, at |-> now]
    /\ sres' = SearchCall(docs, kw, fts, now)
    /\ UNCHANGED docs
    /\ SearchKeepsStore
    /\ SearchOuter

\* time.time() moves on between two searches.
SearchTick ==
    /\ now < MaxTime
    /\ now' = now + 1
    /\ UNCHANGED <<fsVars, dbVars, histVars, pc, cands, pos, scanned, indexed,
                   batch, status, outerVars>>

NextSearch ==
    \/ \E i \in 1..Len(DocPaths) : \E r \in DocRows(i) \cup {NoRow} : IndexDoc(i, r)
    \/ \E kw \in Searches, match \in {"ok", "raises"} :
           /\ (SearchOptions(kw).use_regex \/ kw.query = "" \/ ~fts_enabled)
                  => match = "ok"
           /\ Search(kw, match)
    \/ Discard
    \/ SearchTick
    \/ \E fts5 \in BOOLEAN : OpenStore(fts5)

SpecSearch == Init /\ [][NextSearch]_vars

----------------------------------------------------------------------------
(* Properties of the searches (checked under SpecSearch). *)

\* The options of the last search, and whether it returned.
LastOptions == SearchOptions(sreq.kw)
Returned == sres # NoCall /\ sres.raised = "none"

\* The query the last search ran last: "fts", "like", "regex", or "none".
RanLast == IF sres.selects = <<>> THEN "none" ELSE sres.selects[Len(sres.selects)]

\* C14: every hit has its extension in the file-type list (if set), a path
\* that matches the glob (if set) and none of the exclude patterns (if set),
\* whichever of the three queries produced it.
C14_FiltersHoldInEveryMode ==
    Returned =>
        \A j \in 1..Len(sres.hits) :
            /\ MatchesFileTypes(sres.hits[j].path, LastOptions.file_types)
            /\ MatchesPathPattern(sres.hits[j].path, LastOptions.path_pattern)
            /\ ~MatchesExcludePatterns(sres.hits[j].path, LastOptions.exclude_patterns)

\* A substring search with the three filters set has scanned three rows that
\* contain the query and returned the one that passes the filters.
C14_Witness ==
    /\ Returned /\ RanLast = "like"
    /\ LastOptions.file_types # <<>>
    /\ LastOptions.path_pattern # <<>>
    /\ LastOptions.exclude_patterns # <<>>
    /\ sres.meta.total_scanned = 3
    /\ Len(sres.hits) = 1 /\ sres.hits[1].doc = 3

\* All the hits of the query "def" on the table, in their order.
AllHits ==
    SearchV2(docs, SearchOptions([query |-> "def", limit |-> Len(DocPaths)]),
             sreq.fts, sreq.at).hits

\* C15: a search with limit L at offset k returns, and its hits are the hits
\* k+1 .. k+L of the query: the pages share no path and cover the T matching
\* paths.
C15_PagesPartitionTheHits ==
    (sres # NoCall /\ "offset" \in DOMAIN sreq.kw) =>
        /\ sres.raised = "none"
        /\ sres.hits = SubSeq(AllHits, sreq.kw.offset + 1,
                              Min(sreq.kw.offset + sreq.kw.limit, Len(AllHits)))

\* C16: the meta of a search has the total_mode of the options and a total,
\* which in exact mode is the number of files that match the query and the
\* filters.
C16_TotalReported ==
    (sres # NoCall /\ sreq.kw.query # "") =>
        /\ sres.raised = "none"
        /\ {"total", "total_mode"} \subseteq DOMAIN sres.meta
        /\ "total_mode" \in DOMAIN sreq.kw => sres.meta.total_mode = sreq.kw.total_mode
        /\ ("total_mode" \in DOMAIN sreq.kw /\ sreq.kw.total_mode = "exact") =>
               sres.meta.total = Len(AllHits)

\* The largest number a count bounded by n can be.
AtMost(n) == IF n < 0 THEN 0 ELSE n

\* C28: a search that returns has at most `limit` hits, whatever integer the
\* limit is, and has fetched at most 5000 rows in regex mode, at most 5 x
\* limit rows with a file-type, glob or exclude filter, and at most limit
\* rows otherwise.
C28_LimitBoundsHitsAndFetch ==
    Returned =>
        /\ Len(sres.hits) <= AtMost(LastOptions.limit)
        /\ sres.meta.total_scanned <=
               IF LastOptions.use_regex THEN RegexScanLimit
               ELSE AtMost(FetchLimit(LastOptions))

\* C17: a regex search whose query does not compile returns no hit and a
\* regex_error in meta, raises nothing and runs no SELECT.
C17_BadRegexReported ==
    (sres # NoCall /\ LastOptions.use_regex /\ sreq.kw.query = "(") =>
        /\ sres.raised = "none"
        /\ sres.hits = <<>>
        /\ "regex_error" \in DOMAIN sres.meta
        /\ sres.selects = <<>>
        /\ sres.meta.total_scanned = 0

\* The bad regex has been searched on a table with rows.
C17_Witness ==
    /\ Returned /\ LastOptions.use_regex /\ sreq.kw.query = "("
    /\ \A i \in 1..Len(DocPaths) : docs[i] # NoRow

\* C18: a search with a query and without use_regex runs the full-text query
\* first when the store has the full-text engine, and the substring query
\* after it, in the same call, when the full-text query raised; fallback_used
\* is true exactly when the substring query produced the hits.
C18_FallbackInSameCall ==
    (Returned /\ sreq.kw.query # "" /\ ~LastOptions.use_regex) =>
        /\ sreq.fts # "disabled" => sres.selects[1] = "fts"
        /\ (sreq.fts = "ok" /\ sreq.kw.query # "(") => sres.selects = <<"fts">>
        /\ (sreq.fts = "raises" \/ (sreq.fts = "ok" /\ sreq.kw.query = "(")) =>
               sres.selects = <<"fts", "like">>
        /\ sreq.fts = "disabled" => sres.selects = <<"like">>
        /\ sres.meta.fallback_used <=> (RanLast = "like")

\* The full-text query raised and the substring query has returned a hit.
C18_Witness ==
    /\ Returned /\ sreq.fts = "raises"
    /\ sres.selects = <<"fts", "like">>
    /\ sres.meta.fallback_used
    /\ Len(sres.hits) >= 1

\* The hits are in descending order of score.
ScoreDescending ==
    \A j \in 1..Len(sres.hits) : \A k \in (j + 1)..Len(sres.hits) :
        sres.hits[j].score >= sres.hits[k].score

\* Hit a was retrieved before hit b by the SELECT that produced them: ORDER BY
\* score (full-text), f.path (substring, regex), or f.mtime DESC first with
\* recency_boost; rows the ORDER BY does not tell apart come in path order.
RetrievedBefore(a, b) ==
    LET ma == docs[a.doc].mtime
        mb == docs[b.doc].mtime
        ra == IF RanLast = "fts" THEN 0 - a.match_count ELSE 0
        rb == IF RanLast = "fts" THEN 0 - b.match_count ELSE 0
    IN  IF LastOptions.recency_boost /\ ma # mb THEN ma > mb
        ELSE IF ra # rb THEN ra < rb
        ELSE a.doc < b.doc

TiesInRetrievalOrder ==
    \A j \in 1..Len(sres.hits) : \A k \in (j + 1)..Len(sres.hits) :
        sres.hits[j].score = sres.hits[k].score =>
            RetrievedBefore(sres.hits[j], sres.hits[k])

\* The search of sreq, made now on the same table, returns the same paths in
\* the same order.
PathsOf(hits) == [j \in 1..Len(hits) |-> hits[j].path]
SameHitsNow == PathsOf(SearchCall(docs, sreq.kw, sreq.fts, now).hits) = PathsOf(sres.hits)

\* C19, as stated: the hits are in descending order of score, hits of equal
\* score in the order of their retrieval, and the same table and options
\* always give the same hits in the same order.
C19_SameOrderAlways ==
    Returned => ScoreDescending /\ TiesInRetrievalOrder /\ SameHitsNow

\* C19, amended: the same, where the same table and options give the same
\* order at any time when recency_boost is off, and at the same time of the
\* call when it is on.
C19_OrderByScoreStable ==
    Returned =>
        /\ ScoreDescending
        /\ TiesInRetrievalOrder
        /\ (~LastOptions.recency_boost \/ sreq.at = now) => SameHitsNow

\* A regex search without recency_boost has returned two hits of equal score,
\* in path order, ahead of a row of a lower score that lies between them in
\* path order; time has passed since.
C19_Witness ==
    /\ Returned /\ ~LastOptions.recency_boost /\ sreq.at < now
    /\ RanLast = "regex"
    /\ Len(sres.hits) = 2
    /\ sres.hits[1].score = sres.hits[2].score
    /\ sres.hits[1].doc = 1 /\ sres.hits[2].doc = 3
    /\ docs[2] # NoRow /\ docs[2].content = Words(5)

----------------------------------------------------------------------------
(* Properties of the loop. *)

\* C13: a pass that finds the root missing counts exactly one error, leaves the
\* status otherwise and the store as they are, and returns into run_forever,
\* which then reaches its wait (or returns, and only when stop() was called).
C13_RootMissingKeepsRunning ==
    /\ [][ (pc = "walk" /\ ~rootOk /\ pc' # "walk") =>
            /\ status.errors < MaxErrors =>
                    status' = [status EXCEPT !.errors = @ + 1]
            /\ files' = files /\ inTx' = inTx
            /\ lpc' \in {"ready", "while"} ]_vars
    /\ [](lpc = "done" => stopEv)
    /\ (pc = "walk" /\ ~rootOk) ~> (lpc \in {"wait", "done"})

\* Two passes in a row have found the root missing, and the loop waits again.
C13_Witness ==
    /\ lpc = "wait" /\ ~rootOk /\ edits = 1
    /\ status.errors = 2 /\ status.last_scan_ts = 0
    /\ files = [p \in Paths |-> NoRow]

\* C5 (under SpecLoop): index_ready is false until the first pass has returned,
\* true from line 81 on, and never reset.
C5_ReadyAfterFirstPass ==
    /\ [](lpc \in {"start", "first"} => ~status.index_ready)
    /\ [](lpc \notin {"start", "first", "ready"} => status.index_ready)
    /\ [][status.index_ready => status'.index_ready]_vars

\* The loop waits, ready, after a first pass that wrote its status.
C5_Witness ==
    /\ lpc = "wait"
    /\ status.index_ready
    /\ status.last_scan_ts # 0

\* C6 (under SpecLoopFair): once _stop is set at most one further pass begins,
\* run_forever does not return from inside a pass, and it returns eventually,
\* without the interval having to elapse.
C6_StopAtWaitBoundary ==
    /\ [](afterStop <= 1)
    /\ [](lpc = "done" => pc = "idle")
    /\ (stopEv ~> lpc = "done")

\* run_forever has returned after a pass that began when _stop was already set.
C6_Witness ==
    /\ lpc = "done"
    /\ afterStop = 1
    /\ status.index_ready

\* C7 (under SpecLoopFair): a request made while run_forever is running and not
\* stopped is followed by the start of a pass, as long as the loop is not
\* stopped, and without the interval having to elapse.
C7_NoRescanLost == pending ~> (~pending \/ stopEv)

\* A request made between the return of the wait and the clearing of the
\* trigger: the trigger is cleared, the pass is still owed.
C7_Witness ==
    /\ pending
    /\ lpc = "check"
    /\ ~rescanEv
    /\ ~stopEv

\* C21: the full-text flag of a store instance is assigned when the store is
\* opened and never again: it keeps its value through every later step, a
\* search whose full-text query raised included, and the capability is probed
\* once, by the open, and by no query.
C21_FtsResolvedOnce ==
    /\ [][opened => /\ opened'
                    /\ fts_enabled' = fts_enabled
                    /\ probes' = probes]_vars
    /\ [](opened <=> probes = 1)

\* The full-text query of a search has raised, the substring query has
\* answered, and the store still has the full-text engine enabled.
C21_Witness ==
    /\ opened /\ fts_enabled /\ probes = 1
    /\ Returned
    /\ sreq.fts = "raises"
    /\ sres.selects = <<"fts", "like">>
    /\ sres.meta.fallback_used

----------------------------------------------------------------------------
(* _redact as a function of the text: the indexer reads the text of a file   *)
(* (indexer.py line 126) and redacts it (line 131).                           *)

\* The longest text read, in lines.
MaxLines == 3

\* The lines a text is made of.
Lines == {PlainLine, SecretLine, EmptySecretLine, BlankLine}

RedactInputs == UNION { [1..n -> Lines] : n \in 0..MaxLines }

RedactOuter == UNCHANGED <<fsVars, dbVars, scanVars, histVars, loopVars, rdVars,
                           dbcVars, srchVars, ftsVars, stVars, extVars>>

\* text = file_path.read_text(encoding="utf-8", errors="ignore")
ReadText(t) ==
    /\ xpc = "idle"
    /\ xpc' = "read"
    /\ text' = t
    /\ UNCHANGED redacted
    /\ RedactOuter

\* text = _redact(text)
RedactText ==
    /\ xpc = "read"
    /\ RedactEnabled
    /\ xpc' = "redacted"
    /\ redacted' = Redact(text)
    /\ UNCHANGED text
    /\ RedactOuter

NextRedact ==
    \/ \E t \in RedactInputs : ReadText(t)
    \/ RedactText

SpecRedact == Init /\ [][NextRedact]_vars

\* C20: the redacted text has as many lines as the text read, and every line
\* of the text read that holds no secret key is the same line, at the same
\* place, of the redacted text; a blank line after a redacted line included.
C20_RedactKeepsLines ==
    xpc = "redacted" =>
        /\ Len(redacted) = Len(text)
        /\ \A i \in 1..Len(text) :
               text[i].key \notin SecretKeys =>
                   i <= Len(redacted) /\ redacted[i] = text[i]

----------------------------------------------------------------------------
(* SpecStore: upsert_files and delete_files of one caller on an opened store, *)
(* with the triggers that keep files_fts (db.py lines 120-148).               *)

\* The largest rowid the files table hands out.
MaxRowid == 3
\* The longest batch of a call.
MaxBatch == 2

StoreOuter == UNCHANGED <<fsVars, scanVars, histVars, loopVars, rdVars, dbcVars,
                          srchVars, redVars, extVars>>

\* The rows of the batches: a path in one of its versions.
StoreRows ==
    { [path |-> p, repo |-> RepoOf(p), mtime |-> v, size |-> v,
       content |-> [j \in 1..v |-> PlainLine]] : p \in Paths, v \in 1..MaxMtime }

UpsertBatches == UNION { [1..n -> StoreRows] : n \in 0..MaxBatch }
DeleteBatches == UNION { [1..n -> Paths] : n \in 0..MaxBatch }

\* DELETE FROM files WHERE path=?, statement by statement over the paths.
RECURSIVE ApplyDelete(_, _)
ApplyDelete(table, paths) ==
    IF paths = <<>> THEN table
    ELSE ApplyDelete([table EXCEPT ![Head(paths)] = NoRow], Tail(paths))

\* An entry of files_fts: (rowid, path, repo, content) of a row.
Entry(rid, p, row) ==
    [rowid |-> rid, path |-> p, repo |-> row.repo, content |-> row.content]

RECURSIVE RemoveOne(_, _)
RemoveOne(seq, x) ==
    IF seq = <<>> THEN <<>>
    ELSE IF Head(seq) = x THEN Tail(seq)
         ELSE <<Head(seq)>> \o RemoveOne(Tail(seq), x)

\* Trigger files_ai: AFTER INSERT ON files.
FilesAi(idx, rid, p, new) == Append(idx, Entry(rid, p, new))

\* Trigger files_ad: AFTER DELETE ON files, the 'delete' command with the old row.
FilesAd(idx, rid, p, old) == RemoveOne(idx, Entry(rid, p, old))

\* An update trigger that adds the new entry and leaves the old one.
FilesAuNoDelete(idx, rid, p, old, new) == FilesAi(idx, rid, p, new)

\* Trigger files_au: AFTER UPDATE ON files.
FilesAu(idx, rid, p, old, new) == FilesAi(FilesAd(idx, rid, p, old), rid, p, new)

\* The rowid of a new row of a table with an implicit rowid: the largest in
\* use plus one.
NextRowid(rids) ==
    (CHOOSE m \in 0..MaxRowid + 1 :
        /\ \A p \in Paths : rids[p] <= m
        /\ m = 0 \/ \E p \in Paths : rids[p] = m) + 1

\* The rowids and the index after the statements of an upsert batch.
RECURSIVE UpsertTriggers(_, _, _, _)
UpsertTriggers(table, rids, idx, rows) ==
    IF rows = <<>> THEN [rowids |-> rids, idx |-> idx]
    ELSE LET r == Head(rows)
             old == table[r.path]
             rid == IF old = NoRow THEN NextRowid(rids) ELSE rids[r.path]
             new == ApplyUpsert(table, <<r>>)
             idx1 == IF ~fts_enabled THEN idx
                     ELSE IF old = NoRow THEN FilesAi(idx, rid, r.path, new[r.path])
                     ELSE FilesAu(idx, rid, r.path, old, new[r.path])
         IN  UpsertTriggers(new, [rids EXCEPT ![r.path] = rid], idx1, Tail(rows))

\* The rowids and the index after the statements of a delete batch.
RECURSIVE DeleteTriggers(_, _, _, _)
DeleteTriggers(table, rids, idx, paths) ==
    IF paths = <<>> THEN [rowids |-> rids, idx |-> idx]
    ELSE LET p == Head(paths)
             old == table[p]
             idx1 == IF ~fts_enabled \/ old = NoRow THEN idx
                     ELSE FilesAd(idx, rids[p], p, old)
         IN  DeleteTriggers(ApplyDelete(table, <<p>>), [rids EXCEPT ![p] = 0],
                            idx1, Tail(paths))

\* What a call has done: its batch, whether it raised, what it returned, and
\* whether it got as far as BEGIN.
Outcome(op, rows, raised, ret, began) ==
    [op |-> op, rows |-> rows, raised |-> raised, ret |-> ret, began |-> began]

\* upsert_files(rows) (lines 151-171).
UpsertFiles(rows) ==
    /\ opened
    /\ before' = files
    /\ IF rows = <<>>
       THEN /\ wcall' = Outcome("upsert", rows, FALSE, 0, FALSE)
            /\ UNCHANGED <<dbVars, rowids, ftsIdx>>
       ELSE \/ /\ UpsertReturns(rows)
               /\ LET t == UpsertTriggers(files, rowids, ftsIdx, rows)
                  IN  /\ \A p \in Paths : t.rowids[p] <= MaxRowid
                      /\ rowids' = t.rowids
                      /\ ftsIdx' = t.idx
               /\ wcall' = Outcome("upsert", rows, FALSE, Len(rows), TRUE)
            \/ /\ UpsertRaises(rows)
               /\ UNCHANGED <<rowids, ftsIdx>>
               /\ wcall' = Outcome("upsert", rows, TRUE, 0, TRUE)
    /\ UNCHANGED ftsVars
    /\ StoreOuter

\* delete_files(paths) (lines 173-182).
DeleteFiles(paths) ==
    /\ opened
    /\ before' = files
    /\ IF paths = <<>>
       THEN /\ wcall' = Outcome("delete", paths, FALSE, 0, FALSE)
            /\ UNCHANGED <<dbVars, rowids, ftsIdx>>
       ELSE \/ /\ ~inTx
               /\ files' = ApplyDelete(files, paths)
               /\ inTx' = FALSE
               /\ LET t == DeleteTriggers(files, rowids, ftsIdx, paths)
                  IN  rowids' = t.rowids /\ ftsIdx' = t.idx
               /\ wcall' = Outcome("delete", paths, FALSE, Len(paths), TRUE)
            \/ /\ UpsertRaises(paths)
               /\ UNCHANGED <<rowids, ftsIdx>>
               /\ wcall' = Outcome("delete", paths, TRUE, 0, TRUE)
    /\ UNCHANGED ftsVars
    /\ StoreOuter

NextStore ==
    \/ \E fts5 \in BOOLEAN : OpenStore(fts5)
    \/ \E rows \in UpsertBatches : UpsertFiles(rows)
    \/ \E paths \in DeleteBatches : DeleteFiles(paths)

SpecStore == Init /\ [][NextStore]_vars

\* The paths that have a row.
Stored == {p \in Paths : files[p] # NoRow}

\* C22: on a store with the full-text engine, after every call the index has
\* as many entries as the table has rows, and for every row the entry of its
\* rowid with its path, repo and content: none of a deleted row, none of the
\* earlier content of an updated row.
C22_FtsInLockstep ==
    (opened /\ fts_enabled) =>
        /\ Len(ftsIdx) = Cardinality(Stored)
        /\ \A p \in Stored :
               \E i \in 1..Len(ftsIdx) : ftsIdx[i] = Entry(rowids[p], p, files[p])

\* A batch has inserted a path and updated it, on a table where the other path
\* had been deleted and written again: the index holds the two current rows.
C22_Witness ==
    /\ opened /\ fts_enabled
    /\ wcall.op = "upsert" /\ ~wcall.raised
    /\ Len(wcall.rows) = 2 /\ wcall.rows[1].path = wcall.rows[2].path
    /\ wcall.rows[1].content # wcall.rows[2].content
    /\ before[wcall.rows[1].path] = NoRow
    /\ Cardinality(Stored) = 2
    /\ \E p \in Paths : rowids[p] = 3

\* The last row of a batch with path p.
LastRowFor(rows, p) ==
    rows[CHOOSE i \in 1..Len(rows) :
            /\ rows[i].path = p
            /\ \A j \in (i + 1)..Len(rows) : rows[j].path # p]

\* C23: after upsert_files(rows) has returned, every path of the batch has the
\* row the last batch row of that path gives, every other path the row it had,
\* two rows are never one (their rowids differ), and the call has returned the
\* length of the batch; for an empty batch 0, without BEGIN.
C23_UpsertIsInsertOrReplace ==
    (wcall.op = "upsert" /\ ~wcall.raised) =>
        /\ \A p \in Paths :
               IF \E i \in 1..Len(wcall.rows) : wcall.rows[i].path = p
               THEN LET r == LastRowFor(wcall.rows, p)
                    IN  /\ files[p] # NoRow
                        /\ files[p].repo = r.repo /\ files[p].mtime = r.mtime
                        /\ files[p].size = r.size /\ files[p].content = r.content
               ELSE files[p] = before[p]
        /\ \A p, q \in Stored : p # q => rowids[p] # rowids[q]
        /\ wcall.ret = Len(wcall.rows)
        /\ wcall.rows = <<>> => (wcall.ret = 0 /\ ~wcall.began /\ files = before)

\* A batch with two rows of one path, on a table that held an earlier version
\* of that path and a row of the other path: the later row is stored.
C23_Witness ==
    /\ wcall.op = "upsert" /\ ~wcall.raised /\ wcall.ret = 2
    /\ wcall.rows[1].path = wcall.rows[2].path
    /\ wcall.rows[1] # wcall.rows[2]
    /\ before[wcall.rows[1].path] # NoRow
    /\ files[wcall.rows[1].path].mtime = wcall.rows[2].mtime
    /\ \E q \in Paths : q # wcall.rows[1].path /\ before[q] # NoRow /\ files[q] = before[q]

----------------------------------------------------------------------------
(* SpecEnsure: the server is started in a workspace and opens its store       *)
(* (server.py lines 51-109).                                                  *)

EnsureOuter == UNCHANGED <<fsVars, dbVars, scanVars, histVars, loopVars, rdVars,
                           dbcVars, srchVars, redVars, ftsVars, stVars, srvVars,
                           toolVars, snipVars, walkVars, recVars,
        listVars,
        likeVars,
        candVars,
        lifeVars>>

\* File paths are sequences of segments; "~" stands for the home directory.
Home == <<"home", "u">>
Roots == { <<"ws1">>, <<"ws2">>, <<"ws1", "sub">>, <<"home", "u", "ws">> }

\* <root>/.codex/tools/local-search/data/index.db
DataPath == <<".codex", "tools", "local-search", "data", "index.db">>

\* The values of LOCAL_SEARCH_DB_PATH: unset or empty, blanks only, and paths,
\* with or without blanks around them.
EnvValues ==
    [blanks : BOOLEAN,
     path : { <<>>, <<"tmp", "debug.db">>, <<"~", "debug.db">>,
              <<"ws2", ".codex", "tools", "local-search", "data", "index.db">> }]

\* db_path of config.json: none (no file, or no such key), or a path.
ConfigDbPaths == { <<>>, <<"tmp", "custom", "my.db">> }

\* str.strip(): the text without the blanks around it.
Strip(v) == v.path

\* os.path.expanduser
ExpandUser(path) ==
    IF path # <<>> /\ Head(path) = "~" THEN Home \o Tail(path) ELSE path

\* A path resolution that takes db_path of the configuration when there is one.
DbPathFromConfig(root, env, cfgDb) ==
    IF Strip(env) # <<>> THEN ExpandUser(Strip(env))
    ELSE IF cfgDb # <<>> THEN cfgDb
    ELSE root \o DataPath

\* Lines 79-86: the path the store is opened on.
DbPath(root, env, cfgDb) ==
    LET workspace_db_path == root \o DataPath
        debug_db_path == Strip(env)
    IN  IF debug_db_path # <<>> THEN ExpandUser(debug_db_path)
        ELSE workspace_db_path

\* main(): the process starts with a workspace root, an environment and
\* possibly a config.json.
Launch(root, env, cfgDb) ==
    /\ launch = NoLaunch
    /\ launch' = [started |-> TRUE, root |-> root, env |-> env, cfgDb |-> cfgDb]
    /\ UNCHANGED <<initialized, dbPath>>
    /\ EnsureOuter

\* _ensure_initialized, first call: the store is opened.
EnsureInitialized ==
    /\ launch # NoLaunch
    /\ ~initialized
    /\ dbPath' = DbPath(launch.root, launch.env, launch.cfgDb)
    /\ initialized' = TRUE
    /\ UNCHANGED launch
    /\ EnsureOuter

NextEnsure ==
    \/ \E root \in Roots, env \in EnvValues, cfgDb \in ConfigDbPaths :
           Launch(root, env, cfgDb)
    \/ EnsureInitialized

SpecEnsure == Init /\ [][NextEnsure]_vars

IsPrefix(a, b) == Len(a) <= Len(b) /\ SubSeq(b, 1, Len(a)) = a

----------------------------------------------------------------------------
(* SpecServe: LocalSearchMCPServer.run reads lines and answers them           *)
(* (server.py lines 579-663).                                                 *)

\* The most lines read.
MaxRequests == 2

ServeOuter == UNCHANGED <<fsVars, dbVars, scanVars, histVars, loopVars, rdVars,
                          dbcVars, srchVars, redVars, ftsVars, stVars, iniVars,
                          toolVars, snipVars, walkVars, recVars,
        listVars,
        likeVars,
        candVars,
        lifeVars>>

NoId == "none"

Methods == {"initialize", "initialized", "tools/list", "tools/call", "ping", "other"}

\* A line that parses to a JSON object: its method, its id (NoId without one),
\* and whether the handler of the method raises on its params.
Requests ==
    [shape : {"object"}, method : Methods, id : {NoId, "r1"}, fails : BOOLEAN]

\* The lines of stdin: requests, a blank line, a line that is no JSON, and a
\* line of JSON that is no object (an array, a number).
InputLines ==
    Requests \cup {[shape |-> "blank"], [shape |-> "nojson"], [shape |-> "array"]}

NoResponse == [kind |-> "none"]
Response(id, kind) == [kind |-> kind, id |-> id]
Returns(resp) == [raised |-> FALSE, resp |-> resp]
Propagates == [raised |-> TRUE]

\* handle_request on parsed JSON (lines 579-629).  request.get runs before the
\* try: on JSON that is no object it raises AttributeError out of the method.
HandleRequest(r) ==
    IF r.shape # "object" THEN Propagates
    ELSE LET is_notification == r.id = NoId IN
         IF r.method = "other" THEN
             IF is_notification THEN Returns(NoResponse)
             ELSE Returns(Response(r.id, "error"))
         ELSE IF r.fails THEN
             IF is_notification THEN Returns(NoResponse)
             ELSE Returns(Response(r.id, "error"))
         ELSE IF r.method = "initialized" THEN Returns(NoResponse)
         ELSE IF is_notification THEN Returns(NoResponse)
         ELSE Returns(Response(r.id, "result"))

\* One turn of the loop of run (lines 634-655): a blank line is skipped, a
\* line that is no JSON is answered with a parse error without id, anything
\* else goes to handle_request; only json.JSONDecodeError is caught.
ServeLine(l) ==
    /\ srvpc = "serving"
    /\ Len(inp) < MaxRequests
    /\ inp' = Append(inp, l)
    /\ IF l.shape = "blank" THEN UNCHANGED <<srvpc, out>>
       ELSE IF l.shape = "nojson"
       THEN /\ out' = Append(out, [line |-> Len(inp) + 1,
                                   resp |-> Response(NoId, "error")])
            /\ UNCHANGED srvpc
       ELSE LET h == HandleRequest(l) IN
            IF h.raised THEN srvpc' = "terminated" /\ UNCHANGED out
            ELSE /\ UNCHANGED srvpc
                 /\ out' = IF h.resp = NoResponse THEN out
                           ELSE Append(out, [line |-> Len(inp) + 1, resp |-> h.resp])
    /\ ServeOuter

NextServe == \E l \in InputLines : ServeLine(l)

SpecServe == Init /\ [][NextServe]_vars

\* The responses printed for line k.
ResponsesTo(k) == SelectSeq(out, LAMBDA o : o.line = k)

\* C24: the loop goes on after every line; a request with an id has exactly
\* one response, a result or an error with that id; a request without id has
\* none.
C24_EveryRequestAnswered ==
    /\ srvpc = "serving"
    /\ \A k \in 1..Len(inp) :
           inp[k].shape = "object" =>
               IF inp[k].id = NoId THEN ResponsesTo(k) = <<>>
               ELSE /\ Len(ResponsesTo(k)) = 1
                    /\ ResponsesTo(k)[1].resp.id = inp[k].id
                    /\ ResponsesTo(k)[1].resp.kind \in {"result", "error"}

----------------------------------------------------------------------------
(* SpecSnippet: LocalSearchDB._snippet_around (db.py lines 380-418) on one     *)
(* content.  A content is a sequence of characters: letters, the newline      *)
(* "LF" and the form feed "FF".                                               *)

\* The longest content and the largest max_lines.
MaxChars == 4
MaxSnippetLines == 3

SnippetOuter == UNCHANGED <<fsVars, dbVars, scanVars, histVars, loopVars, rdVars,
                            dbcVars, srchVars, redVars, ftsVars, stVars, srvVars,
                            iniVars, toolVars, walkVars, recVars,
        listVars,
        likeVars,
        candVars,
        lifeVars>>

Max(a, b) == IF a > b THEN a ELSE b

\* The characters str.splitlines() ends a line at (of those of the model).
LineBreaks == {"LF", "FF"}

\* str.lower() of a character.
LowerChar(c) == IF c = "D" THEN "d" ELSE c

\* content.splitlines(): a line ends at a line break and at the end of the
\* content; a line break at the end opens no further line.
RECURSIVE SplitFrom(_, _, _)
SplitFrom(c, i, cur) ==
    IF i > Len(c) THEN (IF cur = <<>> THEN <<>> ELSE <<cur>>)
    ELSE IF c[i] \in LineBreaks THEN <<cur>> \o SplitFrom(c, i + 1, <<>>)
    ELSE SplitFrom(c, i + 1, Append(cur, c[i]))

SplitLines(c) == SplitFrom(c, 1, <<>>)

\* lower.find(t.lower()) for a term of one character: the offset of its first
\* occurrence, or -1.
Find(c, t) ==
    LET at == {i \in 1..Len(c) : LowerChar(c[i]) = LowerChar(t)}
    IN  IF at = {} THEN 0 - 1
        ELSE (CHOOSE i \in at : \A j \in at : i <= j) - 1

\* Lines 390-397: the first term that occurs, and where.
RECURSIVE FirstMatch(_, _)
FirstMatch(c, terms) ==
    IF terms = <<>> THEN [pos |-> 0 - 1, term |-> ""]
    ELSE IF Find(c, Head(terms)) # 0 - 1
         THEN [pos |-> Find(c, Head(terms)), term |-> Head(terms)]
         ELSE FirstMatch(c, Tail(terms))

\* lower[:pos].count("\n")
CountNewlines(c, p) == Cardinality({i \in 1..p : c[i] = "LF"})

\* pattern.sub(f">>>{matched_term}<<<", line), the pattern ignoring case.
RECURSIVE Highlight(_, _)
Highlight(line, term) ==
    IF line = <<>> THEN <<>>
    ELSE (IF LowerChar(Head(line)) = LowerChar(term)
          THEN <<">>>", term, "<<<">> ELSE <<Head(line)>>)
         \o Highlight(Tail(line), term)

\* A line of the snippet: its prefix ("" in a snippet without match, else the
\* arrow or a blank), the number after "L", and the text.
SnippetLine(prefix, no, line) == [prefix |-> prefix, no |-> no, line |-> line]

\* _snippet_around(content, terms, max_lines): the lines that are joined.
SnippetAround(c, terms, max_lines) ==
    IF max_lines <= 0 THEN <<>>
    ELSE
    LET lines == SplitLines(c) IN
    IF lines = <<>> THEN <<>>
    ELSE
    LET m == FirstMatch(c, terms) IN
    IF m.pos = 0 - 1
    THEN [i \in 1..Len(Take(lines, max_lines)) |-> SnippetLine("", i, lines[i])]
    ELSE
    LET line_idx == CountNewlines(c, m.pos)
        half == max_lines \div 2
        start0 == Max(0, line_idx - half)
        end == Min(Len(lines), start0 + max_lines)
        start == Max(0, end - max_lines)
    IN  [j \in 1..(end - start) |->
            SnippetLine(IF start + j - 1 = line_idx THEN "arrow" ELSE " ",
                        start + j, Highlight(lines[start + j], m.term))]

\* The contents, the term lists and the values of max_lines of the model.
Contents(n) == UNION {[1..k -> {"d", "D", "x", "LF", "FF"}] : k \in 0..n}

SnippetTerms == {<<"d">>, <<"q", "D">>}

\* A search has a row and calls _snippet_around on its content.
CallSnippet(c, terms, n) ==
    /\ snpc = "idle"
    /\ snpc' = "called"
    /\ snContent' = c
    /\ snTerms' = terms
    /\ snMaxLines' = n
    /\ UNCHANGED snippet
    /\ SnippetOuter

ReturnSnippet ==
    /\ snpc = "called"
    /\ snpc' = "done"
    /\ snippet' = SnippetAround(snContent, snTerms, snMaxLines)
    /\ UNCHANGED <<snContent, snTerms, snMaxLines>>
    /\ SnippetOuter

NextSnippet ==
    \/ /\ snpc = "idle"
       /\ \E c \in Contents(MaxChars), terms \in SnippetTerms,
             n \in (0 - 1)..MaxSnippetLines : CallSnippet(c, terms, n)
    \/ ReturnSnippet

SpecSnippet == Init /\ [][NextSnippet]_vars

\* The line (from 1) that holds offset p of the content c.
LineOf(c, p) == 1 + Cardinality({i \in 1..p : c[i] \in LineBreaks})

\* C29: for max_lines = n > 0 and a content with lines, the snippet of a
\* content in which a term occurs is a run of exactly min(n, number of lines)
\* consecutive lines of the content that holds the line of the first match,
\* and that line alone has the arrow; without a match it is the first min(n,
\* number of lines) lines without prefix; for n <= 0 or an empty content it
\* is empty.
C29_SnippetWindow ==
    snpc = "done" =>
        LET lines == SplitLines(snContent)
            k == Min(snMaxLines, Len(lines))
            found == {i \in 1..Len(snTerms) : Find(snContent, snTerms[i]) # 0 - 1}
            first == CHOOSE i \in found : \A j \in found : i <= j
        IN  IF snMaxLines <= 0 \/ snContent = <<>> THEN snippet = <<>>
            ELSE IF found = {}
            THEN snippet = [i \in 1..k |-> SnippetLine("", i, lines[i])]
            ELSE /\ Len(snippet) = k
                 /\ \A j \in 1..k : snippet[j].no = snippet[1].no + j - 1
                 /\ snippet[1].no >= 1 /\ snippet[k].no <= Len(lines)
                 /\ \A j \in 1..k :
                        snippet[j].prefix = "arrow"
                        <=> snippet[j].no = LineOf(snContent, Find(snContent, snTerms[first]))

\* The same for the contents whose only line break is the newline.
SnippetWindowOfNewlines ==
    (\A i \in 1..Len(snContent) : snContent[i] # "FF") => C29_SnippetWindow

----------------------------------------------------------------------------
(* SpecRecency: the score of one row in _process_rows (db.py lines 613-617,   *)
(* 350-365).  Times are in days, scores in tenths.                            *)

\* The largest base score of a row.
MaxBase == 2

RecencyOuter == UNCHANGED <<fsVars, dbVars, scanVars, histVars, loopVars, rdVars,
                            dbcVars, srchVars, redVars, ftsVars, stVars, srvVars,
                            iniVars, toolVars, snipVars, walkVars, listVars,
        likeVars,
        candVars,
        lifeVars>>

\* The mtimes of the rows: from long ago to the day after the last day of
\* the clock.
Mtimes == 0..(Today(MaxTime) + 1)

\* _process_rows scores a row with mtime m and base score b at time t.
ScoreRow(m, b, boost, t) ==
    /\ rcall' = [scored |-> TRUE, mtime |-> m, base |-> b, recency_boost |-> boost,
                 at |-> t, score |-> Scored(b, m, [recency_boost |-> boost], t)]
    /\ RecencyOuter

NextRecency ==
    \E m \in Mtimes, b \in 0..MaxBase, boost \in BOOLEAN, t \in 1..MaxTime :
        ScoreRow(m, b, boost, t)

SpecRecency == Init /\ [][NextRecency]_vars

\* The age of the row scored, in days.
AgeDays == Today(rcall.at) - rcall.mtime

\* C33: without recency_boost the score is the base score; with it the score
\* is the base score times 1.5 for an age under 1 day (an mtime in the future
\* included), 1.3 under 7 days, 1.1 under 30 days and 1.0 from 30 days on; no
\* older row has a larger multiplier than a younger one; a base score of 0
\* stays 0.
C33_RecencyMultiplier ==
    rcall.scored =>
        /\ ~rcall.recency_boost => rcall.score = rcall.base * 10
        /\ rcall.base = 0 => rcall.score = 0
        /\ rcall.recency_boost =>
               /\ AgeDays < 1 => rcall.score * 2 = rcall.base * 30
               /\ AgeDays \in 1..6 => rcall.score = rcall.base * 13
               /\ AgeDays \in 7..29 => rcall.score = rcall.base * 11
               /\ AgeDays >= 30 => rcall.score = rcall.base * 10
               /\ \A m \in Mtimes :
                      m <= rcall.mtime =>
                          Scored(rcall.base, m, [recency_boost |-> TRUE], rcall.at)
                              <= rcall.score

\* A row whose mtime is tomorrow has been scored with the boost.
C33_Witness ==
    /\ rcall.scored /\ rcall.recency_boost /\ rcall.base = MaxBase
    /\ AgeDays = 0 - 1
    /\ rcall.score = 15 * MaxBase

----------------------------------------------------------------------------
(* SpecList: LocalSearchDB.list_files (db.py lines 206-306) on a changing      *)
(* table.                                                                     *)

\* The cap of the limit (500 in the code), scaled.
ListCap == 2
\* The largest limit and the largest offset a caller gives.
MaxListLimit == 3
MaxOffset == 2

ListOuter == UNCHANGED <<fsVars, dbVars, scanVars, histVars, loopVars, rdVars,
                         dbcVars, srchVars, redVars, ftsVars, stVars, srvVars,
                         iniVars, toolVars, snipVars, walkVars, recVars,
                         likeVars, candVars,
        lifeVars>>

\* The paths a row can have, in the order of ORDER BY f.repo, f.path, and
\* their repos.
ListPaths ==
    << <<".", "codex", "/", "x", ".", "md">>,
       <<"docs", "/", "index", ".", "md">>,
       <<"src", "/", ".", "h", "/", "a", ".", "py">>,
       <<"src", "/", "main", ".", "py">>,
       <<"src", "/", "util", ".", "PY">> >>

ListRepo(i) == IF ListPaths[i][1] = "." THEN ".codex" ELSE ListPaths[i][1]

\* f.path LIKE '%/.%' OR f.path LIKE '.%'
HiddenPath(path) ==
    \/ path[1] = "."
    \/ \E k \in 1..(Len(path) - 1) : path[k] = "/" /\ path[k + 1] = "."

\* The WHERE clause of lines 231-243.
ListWhere(i, a) ==
    /\ a.repo # "" => ListRepo(i) = a.repo
    /\ ~a.include_hidden => ~HiddenPath(ListPaths[i])

\* The rows of the table that pass the WHERE clause, in order.
ListSelected(tab, a) ==
    SelectSeq([i \in 1..Len(ListPaths) |-> i], LAMBDA i : i \in tab /\ ListWhere(i, a))

\* A page that starts at the first row whatever the offset.
ListRowsFromStart(selected, limit, offset) == SqlLimit(selected, limit)

\* LIMIT ? OFFSET ?
ListRows(selected, limit, offset) ==
    SqlLimit(SubSeq(selected, offset + 1, Len(selected)), limit)

\* The filters of lines 261-272.
ListKeeps(i, a) ==
    /\ MatchesFileTypes(ListPaths[i], a.file_types)
    /\ MatchesPathPattern(ListPaths[i], a.path_pattern)

\* list_files: the files and the meta it returns.
ListFilesResult(tab, a) ==
    LET limit == Min(a.limit, ListCap)
        offset == Max(a.offset, 0)
        selected == ListSelected(tab, a)
        rows == ListRows(selected, limit, offset)
        kept == SelectSeq(rows, LAMBDA i : ListKeeps(i, a))
    IN  [files |-> kept,
         meta |-> [total |-> Len(selected), returned |-> Len(kept),
                   offset |-> offset, limit |-> limit,
                   include_hidden |-> a.include_hidden]]

\* The arguments of the calls of the model.
ListArgs ==
    [repo : {"", "src"},
     path_pattern : {<<>>, <<"src", "/", "*">>},
     file_types : {<<>>, << <<"py">> >>},
     include_hidden : BOOLEAN,
     limit : (0 - 1)..MaxListLimit,
     offset : (0 - 1)..MaxOffset]

\* The indexer writes the row of a path, or the row is deleted.
ListIndex(i) ==
    /\ ltab' = IF i \in ltab THEN ltab \ {i} ELSE ltab \cup {i}
    /\ lcall' = NoList
    /\ ListOuter

\* A caller lists the files of the table as it is now.
ListFiles(a) ==
    /\ ~lcall.listed
    /\ lcall' = [listed |-> TRUE, args |-> a] @@ ListFilesResult(ltab, a)
    /\ UNCHANGED ltab
    /\ ListOuter

NextList ==
    \/ \E i \in 1..Len(ListPaths) : ListIndex(i)
    \/ /\ ~lcall.listed
       /\ \E a \in ListArgs : ListFiles(a)

SpecList == Init /\ [][NextList]_vars

\* The place of row i among the rows that pass the WHERE clause of the last
\* call.
PlaceOf(i) ==
    Cardinality({j \in 1..i : j \in ltab /\ ListWhere(j, lcall.args)})

\* C34: a call of list_files returns at most 500 files (here ListCap) and at
\* most the limit asked for, whatever integer it is; the files come after the
\* first max(offset, 0) rows; meta.returned is the number of files returned.
C34_ListBounded ==
    lcall.listed =>
        /\ Len(lcall.files) <= ListCap
        /\ Len(lcall.files) <= AtMost(lcall.args.limit)
        /\ \A j \in 1..Len(lcall.files) :
               PlaceOf(lcall.files[j]) > Max(lcall.args.offset, 0)
        /\ lcall.meta.returned = Len(lcall.files)

\* The same for the calls with a limit that is not negative.
ListBoundedFromZero ==
    (lcall.listed /\ lcall.args.limit >= 0) => C34_ListBounded

\* The rows of the table that satisfy all the filters of the last call.
ListMatching ==
    SelectSeq(ListSelected(ltab, lcall.args), LAMBDA i : ListKeeps(i, lcall.args))

\* The files of the pages of the last call's limit at the offsets off,
\* off + limit, ... below total.
RECURSIVE PagesFrom(_, _)
PagesFrom(off, total) ==
    IF off >= total THEN <<>>
    ELSE ListFilesResult(ltab, [lcall.args EXCEPT !.offset = off]).files
         \o PagesFrom(off + lcall.meta.limit, total)

----------------------------------------------------------------------------
(* SpecWalk: Indexer._iter_files (indexer.py lines 154-181) on one tree.  A    *)
(* name is the sequence of its parts (letters, "."), a path the sequence of   *)
(* its names.                                                                 *)

WalkOuter == UNCHANGED <<fsVars, dbVars, scanVars, histVars, loopVars, rdVars,
                         dbcVars, srchVars, redVars, ftsVars, stVars, srvVars,
                         iniVars, toolVars, snipVars, recVars,
        listVars,
        likeVars,
        candVars,
        lifeVars>>

\* The names of the model, in the order os.walk lists them.
NameOrder ==
    << <<"Makefile">>, <<"a", ".", "py">>, <<"B", ".", "PY">>,
       <<"x", ".", "min", ".", "js">>, <<"notes", ".", "txt">>,
       <<"gen">>, <<"node_modules">>, <<"pkg">>, <<"src">> >>

\* The files a tree of the model can have.
FileUniverse ==
    { << <<"a", ".", "py">> >>,
      << <<"Makefile">> >>,
      << <<"src">>, <<"B", ".", "PY">> >>,
      << <<"src">>, <<"x", ".", "min", ".", "js">> >>,
      << <<"src">>, <<"notes", ".", "txt">> >>,
      << <<"src">>, <<"gen">>, <<"a", ".", "py">> >>,
      << <<"src">>, <<"node_modules">>, <<"a", ".", "py">> >>,
      << <<"node_modules">>, <<"pkg">>, <<"a", ".", "py">> >> }

\* The configurations of the model.
Configs ==
    [include_ext : {{}, {<<".", "py">>, <<".", "js">>}},
     include_files : {{}, {<<"Makefile">>}},
     exclude_dirs : {{}, {<<"node_modules">>}},
     exclude_globs : {<<>>, << <<"*", ".", "min", ".", "js">> >>,
                      << <<"src", "/", "gen", "/", "*">> >>}]

\* The directories of a tree: root (the empty path) and every directory that
\* holds a file.
DirsOf(t) == UNION {{SubSeq(f, 1, k) : k \in 0..(Len(f) - 1)} : f \in t}

\* os.walk at dirpath d: the names of its subdirectories and of its files.
Dirnames(t, d) == SelectSeq(NameOrder, LAMBDA n : Append(d, n) \in DirsOf(t))
Filenames(t, d) == SelectSeq(NameOrder, LAMBDA n : Append(d, n) \in t)

\* A walk that descends into every directory.
PruneNothing(dirnames, exclude_dirs) == dirnames

\* dirnames[:] = [d for d in dirnames if d not in exclude_dirs]
PruneDirs(dirnames, exclude_dirs) ==
    SelectSeq(dirnames, LAMBDA d : d \notin exclude_dirs)

\* str(p.relative_to(root)): the names joined by "/".
RECURSIVE RelPath(_)
RelPath(f) ==
    IF Len(f) = 1 THEN f[1] ELSE f[1] \o <<"/">> \o RelPath(Tail(f))

\* Path.suffix: from the last "." of the name, unless that is its first or
\* its last part.
Suffix(fn) ==
    LET dots == {i \in 2..(Len(fn) - 1) : fn[i] = "."}
    IN  IF dots = {} THEN <<>>
        ELSE SubSeq(fn, CHOOSE i \in dots : \A j \in dots : j <= i, Len(fn))

\* p.suffix.lower()
SuffixLower(fn) == [j \in 1..Len(Suffix(fn)) |-> Lower(Suffix(fn)[j])]

\* any(fnmatch.fnmatch(s, g) for g in exclude_globs), exclude_globs not empty
AnyGlob(s, exclude_globs) ==
    \E i \in 1..Len(exclude_globs) : Fnmatch(s, exclude_globs[i])

\* Lines 164-181: whether the file fn of directory d is yielded.
YieldsFile(d, fn, c) ==
    /\ ~AnyGlob(fn, c.exclude_globs)
    /\ ~AnyGlob(RelPath(Append(d, fn)), c.exclude_globs)
    /\ \/ c.include_files # {} /\ fn \in c.include_files
       \/ c.include_ext # {} /\ SuffixLower(fn) \in c.include_ext

\* The scan pass calls _iter_files(root) on a tree with a configuration.
BeginWalk(t, c) ==
    /\ wkpc = "idle"
    /\ wkpc' = "walking"
    /\ tree' = t
    /\ cfg' = c
    /\ stack' = << <<>> >>
    /\ UNCHANGED <<visited, yielded>>
    /\ WalkOuter

\* One turn of the loop over os.walk: the next directory is listed, its
\* subdirectories are pruned, its files are filtered and yielded; os.walk
\* then goes down into the subdirectories that are left, in their order.
WalkDir ==
    /\ wkpc = "walking"
    /\ LET dirpath == Head(stack)
           dirnames == PruneDirs(Dirnames(tree, dirpath), cfg.exclude_dirs)
           found == SelectSeq(Filenames(tree, dirpath),
                              LAMBDA fn : YieldsFile(dirpath, fn, cfg))
           rest == [j \in 1..Len(dirnames) |-> Append(dirpath, dirnames[j])]
                   \o Tail(stack)
       IN  /\ visited' = Append(visited, dirpath)
           /\ yielded' = yielded \o [j \in 1..Len(found) |-> Append(dirpath, found[j])]
           /\ stack' = rest
           /\ wkpc' = IF rest = <<>> THEN "done" ELSE "walking"
    /\ UNCHANGED <<tree, cfg>>
    /\ WalkOuter

NextWalk ==
    \/ /\ wkpc = "idle"
       /\ \E t \in SUBSET FileUniverse, c \in Configs : BeginWalk(t, c)
    \/ WalkDir

\* The loop of the pass pulls the generator until it is exhausted.
SpecWalk == Init /\ [][NextWalk]_vars /\ WF_vars(WalkDir)

\* The files of the tree the configuration asks for: under no excluded
\* directory, matched by no exclude glob, and included by name or extension.
UnderExcludedDir(f) == \E i \in 1..(Len(f) - 1) : f[i] \in cfg.exclude_dirs
GlobExcluded(f) ==
    \E i \in 1..Len(cfg.exclude_globs) :
        \/ Fnmatch(f[Len(f)], cfg.exclude_globs[i])
        \/ Fnmatch(RelPath(f), cfg.exclude_globs[i])
NameIncluded(f) ==
    \/ f[Len(f)] \in cfg.include_files
    \/ SuffixLower(f[Len(f)]) \in cfg.include_ext
Wanted == {f \in tree : ~UnderExcludedDir(f) /\ ~GlobExcluded(f) /\ NameIncluded(f)}

\* C30: the walk lists no directory with an excluded name in its path and
\* yields no file under one, nor a file whose name or relative path matches
\* an exclude glob; it yields no file twice; when it is exhausted it has
\* yielded exactly the remaining files whose name is in include_files or
\* whose lower-cased extension is in include_ext; and it is exhausted in the
\* end.
C30_ScannerYields ==
    /\ [](/\ \A j \in 1..Len(visited) :
                \A i \in 1..Len(visited[j]) : visited[j][i] \notin cfg.exclude_dirs
          /\ \A j \in 1..Len(yielded) : yielded[j] \in Wanted
          /\ \A j, k \in 1..Len(yielded) : yielded[j] = yielded[k] => j = k
          /\ wkpc = "done" => {yielded[j] : j \in 1..Len(yielded)} = Wanted)
    /\ (wkpc = "walking" ~> wkpc = "done")

\* A walk of the whole universe with every list of the configuration set has
\* ended: the excluded directories were not listed, and the files of the
\* root and of src were yielded by name and by upper-case extension.
C30_Witness ==
    /\ wkpc = "done"
    /\ tree = FileUniverse
    /\ cfg.exclude_dirs # {} /\ cfg.include_files # {} /\ cfg.include_ext # {}
    /\ cfg.exclude_globs = << <<"*", ".", "min", ".", "js">> >>
    /\ visited = << <<>>, << <<"src">> >>, << <<"src">>, <<"gen">> >> >>
    /\ yielded = << << <<"Makefile">> >>, << <<"a", ".", "py">> >>,
                    << <<"src">>, <<"B", ".", "PY">> >>,
                    << <<"src">>, <<"gen">>, <<"a", ".", "py">> >> >>

----------------------------------------------------------------------------
(* SpecTool: calls of LocalSearchMCPServer._tool_search (server.py lines      *)
(* 309-487) on a changing table.                                              *)

ToolOuter == UNCHANGED <<fsVars, dbVars, scanVars, histVars, loopVars, rdVars,
                         dbcVars, redVars, stVars, srvVars, iniVars, snipVars,
                         walkVars, recVars,
        listVars,
        likeVars,
        candVars,
        lifeVars>>

\* The public methods of LocalSearchDB and the fields of SearchHit (db.py).
StoreMethods ==
    {"close", "upsert_files", "delete_files", "get_file_meta", "get_index_status",
     "count_files", "list_files", "search_v2", "search", "repo_candidates"}
HitFields ==
    {"repo", "path", "score", "snippet", "mtime", "size", "match_count", "file_type"}

\* not query.strip()
QueryBlank(q) == q \in {"", " "}

\* The arguments of the calls of the model: a word of the rows, a word of no
\* row, or blanks; with or without the two filters or the type "docs".
ToolArgs ==
    [query : {"def", "nonexistent_function", " "},
     file_types : {<<>>, << <<"py">> >>},
     path_pattern : {<<>>, <<"src", "/", "*">>},
     type : {"none", "docs"},
     limit : {1, MaxLimit}]

\* Lines 324-328: the file types of the arguments, with those of documents
\* for type "docs".
ToolFileTypes(a) ==
    IF a.type = "docs"
    THEN a.file_types \o << <<"md">>, <<"txt">>, <<"pdf">>, <<"docx">>, <<"rst">> >>
    ELSE a.file_types

\* Lines 333-345: the total_mode for a store of so many repos and files.
ToolTotalMode(a, totalRepos, totalFiles) ==
    IF totalRepos > 50 \/ totalFiles > 150000 THEN "approx"
    ELSE IF (totalRepos > 20 \/ totalFiles > 50000) /\ a.path_pattern # <<>>
         THEN "approx"
         ELSE "exact"

\* The keywords SearchOptions is called with (lines 347-360), those the
\* searches of the model read.
ToolKeywords(a, totalMode) ==
    [query |-> a.query, limit |-> Min(a.limit, 50), offset |-> 0,
     file_types |-> ToolFileTypes(a), path_pattern |-> a.path_pattern,
     exclude_patterns |-> <<>>, recency_boost |-> FALSE, use_regex |-> FALSE,
     total_mode |-> totalMode]

\* Lines 468-474: the hints of an output without results.
ToolHints(o) ==
    LET hints == <<"Try a broader query or remove filters.",
                   "Check if the file is indexed using 'list_files' tool.",
                   "If searching for a specific pattern, try 'use_regex=true'.">>
    IN  IF o.file_types # <<>> \/ o.path_pattern # <<>>
        THEN <<"Try removing 'file_types' or 'path_pattern' filters.">> \o hints
        ELSE hints

\* Lines 401-476: the output built from the hits and the meta of search_v2.
ToolOutput(o, hits, meta) ==
    LET output == [total |-> IF "total" \in DOMAIN meta THEN meta.total ELSE Len(hits),
                   results |-> hits]
    IN  IF hits = <<>> THEN output @@ [hints |-> ToolHints(o)] ELSE output

\* _tool_search on the table tab: what it returns, or the exception it raises.
ToolSearchResult(tab, a, fts, t) ==
    IF QueryBlank(a.query) THEN [raised |-> "none", isError |-> TRUE]
    ELSE IF ~({"get_index_status", "get_repo_stats"} \subseteq StoreMethods)
    THEN [raised |-> "AttributeError"]
    ELSE
    LET rows == {i \in DOMAIN tab : tab[i] # NoRow}
        kw == ToolKeywords(a, ToolTotalMode(a, Cardinality({tab[i].repo : i \in rows}),
                                            Cardinality(rows)))
        r == SearchCall(tab, kw, fts, t)
    IN  IF r.raised # "none" THEN r
        ELSE IF r.hits # <<>> /\ "hit_reason" \notin HitFields
        THEN [raised |-> "AttributeError"]
        ELSE [raised |-> "none", isError |-> FALSE,
              output |-> ToolOutput(SearchOptions(kw), r.hits, r.meta)]

\* A client calls the search tool; match is what the MATCH query does if it
\* is run.
ToolSearch(a, match) ==
    /\ opened
    /\ tres = NoCall
    /\ targs' = a
    /\ tres' = ToolSearchResult(docs, a, IF fts_enabled THEN match ELSE "disabled", now)
    /\ UNCHANGED <<srchVars, ftsVars>>
    /\ ToolOuter

\* The client has read the result.
ToolDiscard ==
    /\ tres # NoCall
    /\ targs' = NoArgs
    /\ tres' = NoCall
    /\ UNCHANGED <<srchVars, ftsVars>>
    /\ ToolOuter

NextTool ==
    \/ \E fts5 \in BOOLEAN : OpenStore(fts5)
    \/ \E i \in 1..Len(DocPaths) : \E r \in DocRows(i) \cup {NoRow} : IndexDoc(i, r)
    \/ \E a \in ToolArgs, match \in {"ok", "raises"} :
           /\ ~fts_enabled => match = "ok"
           /\ ToolSearch(a, match)
    \/ ToolDiscard

SpecTool == Init /\ [][NextTool]_vars

\* The rows of the table that hold the query of the last call and pass its
\* file types and its path pattern.
ToolMatches ==
    {i \in 1..Len(DocPaths) :
        /\ docs[i] # NoRow
        /\ CountMatches(docs[i].content, targs.query) > 0
        /\ MatchesFileTypes(DocPaths[i], ToolFileTypes(targs))
        /\ MatchesPathPattern(DocPaths[i], targs.path_pattern)}

\* C27: a call of the search tool with a query that no row passes returns an
\* output with total 0 and with hints; the generic hint is among them, and
\* the hint about the filters is if and only if file_types or path_pattern
\* was given.
C27_ZeroResultHints ==
    (tres # NoCall /\ ~QueryBlank(targs.query) /\ ToolMatches = {}) =>
        /\ tres.raised = "none"
        /\ tres.output.total = 0
        /\ "hints" \in DOMAIN tres.output
        /\ \E j \in 1..Len(tres.output.hints) :
               tres.output.hints[j] = "Try a broader query or remove filters."
        /\ (\E j \in 1..Len(tres.output.hints) :
               tres.output.hints[j] = "Try removing 'file_types' or 'path_pattern' filters.")
           <=> (targs.file_types # <<>> \/ targs.path_pattern # <<>>)

----------------------------------------------------------------------------
(* SpecLike: _search_like on a table of one row.  A content and a query are *)
(* here sequences of characters; "BS" is the backslash.                     *)

\* The longest content and the longest query.
MaxLikeText == 3
MaxLikeQuery == 2

LikeOuter == UNCHANGED <<fsVars, dbVars, scanVars, histVars, loopVars, rdVars,
                         dbcVars, srchVars, redVars, ftsVars, stVars, srvVars,
                         iniVars, toolVars, snipVars, walkVars, recVars,
                         listVars, candVars,
        lifeVars>>

LikeChars == {"d", "D", "x", "%", "_", "BS"}

\* str.replace(old, new) for an old of one character.
RECURSIVE Replace(_, _, _)
Replace(q, old, new) ==
    IF q = <<>> THEN <<>>
    ELSE (IF Head(q) = old THEN new ELSE <<Head(q)>>) \o Replace(Tail(q), old, new)

\* like_q = opts.query.replace("%", "\\%").replace("_", "\\_")
LikeQ(q) == Replace(Replace(q, "%", <<"BS", "%">>), "_", <<"BS", "_">>)

\* The parameter of the statement: f"%{like_q}%"
LikeParam(q) == <<"%">> \o LikeQ(q) \o <<"%">>

\* content LIKE pattern ESCAPE '\': "%" is any run of characters, "_" any
\* one character, the character after a backslash is taken as itself (a
\* backslash that ends the pattern matches nothing), and ASCII letters are
\* compared without case.  From place i of the pattern and place j of the
\* content on.
RECURSIVE Like(_, _, _, _)
Like(pat, i, c, j) ==
    IF i > Len(pat) THEN j > Len(c)
    ELSE IF pat[i] = "%"
         THEN \E k \in j..(Len(c) + 1) : Like(pat, i + 1, c, k)
    ELSE IF pat[i] = "_"
         THEN j <= Len(c) /\ Like(pat, i + 1, c, j + 1)
    ELSE IF pat[i] = "BS"
         THEN /\ i < Len(pat)
              /\ j <= Len(c)
              /\ LowerChar(pat[i + 1]) = LowerChar(c[j])
              /\ Like(pat, i + 2, c, j + 1)
    ELSE /\ j <= Len(c)
         /\ LowerChar(pat[i]) = LowerChar(c[j])
         /\ Like(pat, i + 1, c, j + 1)

\* Whether q stands at place j of c, letters compared without case.
StandsAt(c, q, j) ==
    /\ j + Len(q) - 1 <= Len(c)
    /\ \A k \in 1..Len(q) : LowerChar(c[j + k - 1]) = LowerChar(q[k])

\* content.lower().count(query.lower()): the occurrences that do not overlap,
\* from place j on.
RECURSIVE CountFrom(_, _, _)
CountFrom(c, q, j) ==
    IF j + Len(q) - 1 > Len(c) THEN 0
    ELSE IF StandsAt(c, q, j) THEN 1 + CountFrom(c, q, j + Len(q))
    ELSE CountFrom(c, q, j + 1)

\* _search_like (lines 486-518) on the table of the one row of content c, with
\* the defaults of the options: the WHERE clause selects the row or not, and
\* _process_rows counts the matches of the row.
SearchLikeRow(c, q) ==
    IF Like(LikeParam(q), 1, c, 1)
    THEN << [content |-> c, match_count |-> CountFrom(c, q, 1)] >>
    ELSE <<>>

LikeContents == UNION {[1..k -> LikeChars] : k \in 0..MaxLikeText}
LikeQueries == UNION {[1..k -> LikeChars] : k \in 1..MaxLikeQuery}

CallSearchLike(c, q) ==
    /\ kcall' = [called |-> TRUE, content |-> c, query |-> q,
                 hits |-> SearchLikeRow(c, q)]
    /\ LikeOuter

\* One call on the store as it was opened.
NextLike ==
    /\ ~kcall.called
    /\ \E c \in LikeContents, q \in LikeQueries : CallSearchLike(c, q)

SpecLike == Init /\ [][NextLike]_vars

\* The query of the last call is in the content of the row, as it is written,
\* letters compared without case.
HoldsQuery == \E j \in 1..Len(kcall.content) : StandsAt(kcall.content, kcall.query, j)

\* C37: the substring search returns only rows whose content holds the query
\* as a literal substring (ASCII case ignored); "%" and "_" of the query match
\* only themselves.
C37_LikeIsLiteral ==
    (kcall.called /\ kcall.hits # <<>>) => HoldsQuery

\* The same for the queries without a backslash, together with its converse:
\* the row is returned if and only if its content holds the query.
LikeIsLiteralWithoutBackslash ==
    (kcall.called /\ \A k \in 1..Len(kcall.query) : kcall.query[k] # "BS") =>
        (kcall.hits # <<>> <=> HoldsQuery)

----------------------------------------------------------------------------
(* SpecCandidates: calls of repo_candidates on a changing table.  Contents  *)
(* and queries are sequences of characters, as in SpecLike.                 *)

\* The largest limit a caller gives.
MaxCandLimit == 6

CandOuter == UNCHANGED <<fsVars, dbVars, scanVars, histVars, loopVars, rdVars,
                         dbcVars, srchVars, redVars, ftsVars, stVars, srvVars,
                         iniVars, toolVars, snipVars, walkVars, recVars,
                         listVars, likeVars, lifeVars>>

\* The repo of each file of the table: two files of r1, one of each other.
CandRepoOf == <<"r1", "r1", "r2", "r3", "r4", "r5", "r6">>
CandRepos == <<"r1", "r2", "r3", "r4", "r5", "r6">>

CandRow(c) == [kind |-> "row", content |-> c]

\* The contents a file can have: the word d, or the word xd and a "%".
CandContents == {<<"d">>, <<"x", "d", "%">>}

\* (q or "").strip()
RECURSIVE LStripBlank(_)
LStripBlank(q) ==
    IF q # <<>> /\ Head(q) = " " THEN LStripBlank(Tail(q)) ELSE q

RECURSIVE RStripBlank(_)
RStripBlank(q) ==
    IF q # <<>> /\ q[Len(q)] = " " THEN RStripBlank(SubSeq(q, 1, Len(q) - 1)) ELSE q

StripBlank(q) == RStripBlank(LStripBlank(q))

\* The characters the tokenizer of the full-text index keeps in a token.
TokenChars == {"d", "D", "x"}

\* The tokens of a content as files_fts indexes them: the runs of token
\* characters, in lower case.
RECURSIVE TokensFrom(_, _, _)
TokensFrom(c, i, cur) ==
    IF i > Len(c) THEN (IF cur = <<>> THEN <<>> ELSE <<cur>>)
    ELSE IF c[i] \in TokenChars THEN TokensFrom(c, i + 1, Append(cur, LowerChar(c[i])))
    ELSE (IF cur = <<>> THEN <<>> ELSE <<cur>>) \o TokensFrom(c, i + 1, <<>>)

\* files_fts MATCH q raises sqlite3.OperationalError for a q that is no
\* query of the full-text engine; of the queries of the model, those with
\* another character than a token character.
MatchRaises(q) == \E k \in 1..Len(q) : q[k] \notin TokenChars

\* files_fts MATCH q for a q of one word: a token of the content is the word.
\* (The index holds path and repo as well; those of the model hold none of
\* the words of its queries.)
FtsMatch(c, q) ==
    LET toks == TokensFrom(c, 1, <<>>)
    IN  \E k \in 1..Len(toks) : toks[k] = [j \in 1..Len(q) |-> LowerChar(q[j])]

\* The files whose rows the WHERE clause of the statement selects.
CandSelected(tab, q, how) ==
    {i \in DOMAIN tab :
        /\ tab[i] # NoRow
        /\ IF how = "fts" THEN FtsMatch(tab[i].content, q)
           ELSE Like(LikeParam(q), 1, tab[i].content, 1)}

\* A group counting every row of the repo, selected or not.
CountAllOfRepo(tab, sel, r) ==
    Cardinality({i \in DOMAIN tab : tab[i] # NoRow /\ CandRepoOf[i] = CandRepos[r]})

\* COUNT(1) of the group of repo r.
CountOfRepo(tab, sel, r) ==
    Cardinality({i \in sel : CandRepoOf[i] = CandRepos[r]})

\* GROUP BY repo ORDER BY c DESC LIMIT ?: the groups of the selected rows, by
\* falling count.  SQL leaves the order of groups of equal count open; ties
\* is the order the engine gives them: "asc" by repo, "desc" against it.
GroupRows(tab, sel, ties, limit) ==
    LET groups == SelectSeq([r \in 1..Len(CandRepos) |-> r],
                            LAMBDA r : \E i \in sel : CandRepoOf[i] = CandRepos[r])
        keyed == [j \in 1..Len(groups) |->
                     [k |-> 0 - CountOfRepo(tab, sel, groups[j]), v |-> groups[j]]]
        sorted == IF ties = "asc" THEN StableSort(keyed) ELSE SortTiesReversed(keyed)
    IN  SqlLimit([j \in 1..Len(sorted) |-> [repo |-> sorted[j].v, c |-> 0 - sorted[j].k]],
                 limit)

\* hits[0].snippet of self.search(q=q, repo=repo, limit=1, ...), here the
\* content of the hit: search_v2 runs the full-text query if the engine is on
\* and takes the query, the substring query if not.
Evidence(tab, q, fts, r) ==
    LET how == IF fts /\ ~MatchRaises(q) THEN "fts" ELSE "like"
        hits == {i \in CandSelected(tab, q, how) : CandRepoOf[i] = CandRepos[r]}
    IN  IF hits = {} THEN <<>>
        ELSE tab[CHOOSE i \in hits : \A j \in hits : i <= j].content

\* The loop over the rows: one candidate for each.
CandidatesOf(tab, q, fts, rows) ==
    [j \in 1..Len(rows) |->
        [repo |-> CandRepos[rows[j].repo], score |-> rows[j].c,
         evidence |-> Evidence(tab, q, fts, rows[j].repo)]]

\* repo_candidates (lines 658-708).  fts is self._fts_enabled; selects lists
\* the statements that were run.
RepoCandidates(tab, query, lim, fts, ties) ==
    LET q == StripBlank(query)
        limit == Max(1, Min(lim, 5))
    IN  IF q = <<>> THEN [raised |-> FALSE, out |-> <<>>, selects |-> <<>>]
        ELSE IF fts /\ ~MatchRaises(q)
        THEN [raised |-> FALSE, selects |-> <<"fts">>,
              out |-> CandidatesOf(tab, q, fts,
                          GroupRows(tab, CandSelected(tab, q, "fts"), ties, limit))]
        ELSE [raised |-> FALSE,
              selects |-> IF fts THEN <<"fts", "like">> ELSE <<"like">>,
              out |-> CandidatesOf(tab, q, fts,
                          GroupRows(tab, CandSelected(tab, q, "like"), ties, limit))]

CandQueries == {<<>>, <<" ">>, <<"d">>, <<"%">>, <<"BS">>}

\* A row is written (or deleted) by the indexer.
CandIndex(i, r) ==
    /\ ~ccall.called
    /\ ctab[i] # r
    /\ ctab' = [ctab EXCEPT ![i] = r]
    /\ UNCHANGED ccall
    /\ CandOuter

\* A caller calls repo_candidates.
CallRepoCandidates(query, lim, fts, ties) ==
    /\ ccall' = [called |-> TRUE, query |-> query, limit |-> lim, fts |-> fts,
                 res |-> RepoCandidates(ctab, query, lim, fts, ties)]
    /\ UNCHANGED ctab
    /\ CandOuter

\* The caller is done with the result.
CandDiscard ==
    /\ ccall.called
    /\ ccall' = NoCandidates
    /\ UNCHANGED ctab
    /\ CandOuter

NextCandidates ==
    \/ \E i \in DOMAIN CandRepoOf :
           \E r \in {CandRow(c) : c \in CandContents} \cup {NoRow} : CandIndex(i, r)
    \/ /\ ~ccall.called
       /\ \E query \in CandQueries, lim \in (0 - 1)..MaxCandLimit, fts \in BOOLEAN,
             ties \in {"asc", "desc"} : CallRepoCandidates(query, lim, fts, ties)
    \/ CandDiscard

SpecCandidates == Init /\ [][NextCandidates]_vars

\* The files of repo that match the query of the last call: by the full-text
\* query if that was the last statement run, by the substring query if not.
CandMatching(repo) ==
    {i \in DOMAIN ctab :
        /\ ctab[i] # NoRow
        /\ CandRepoOf[i] = repo
        /\ IF ccall.res.selects = <<"fts">>
           THEN FtsMatch(ctab[i].content, StripBlank(ccall.query))
           ELSE \E j \in 1..Len(ctab[i].content) :
                    StandsAt(ctab[i].content, StripBlank(ccall.query), j)}

\* C36: repo_candidates returns the empty list for an empty query; otherwise
\* at most min(max(limit, 1), 5) entries, one for a repo, each with the number
\* of the repo's files that match the query as its score, at least 1, in the
\* order of falling score; when the full-text query fails it returns the
\* ranking of the substring query and does not raise.
C36_RepoCandidates ==
    ccall.called =>
        LET got == ccall.res.out IN
        /\ ~ccall.res.raised
        /\ StripBlank(ccall.query) = <<>> => got = <<>>
        /\ Len(got) <= Min(Max(ccall.limit, 1), 5)
        /\ \A j, k \in 1..Len(got) : j # k => got[j].repo # got[k].repo
        /\ \A j \in 1..Len(got) :
               /\ got[j].score = Cardinality(CandMatching(got[j].repo))
               /\ got[j].score >= 1
        /\ \A j \in 1..(Len(got) - 1) : got[j].score >= got[j + 1].score
        /\ (ccall.fts /\ MatchRaises(StripBlank(ccall.query))) =>
               ccall.res.selects = <<"fts", "like">>

\* The same for the queries without a backslash.
RepoCandidatesWithoutBackslash ==
    (ccall.called /\ \A k \in 1..Len(ccall.query) : ccall.query[k] # "BS") =>
        C36_RepoCandidates

\* The full-text query of "%" has failed on a table of six repos; the
\* substring ranking holds five of them, r1 first with its two files.
C36_Witness ==
    /\ ccall.called
    /\ ccall.fts /\ ccall.query = <<"%">> /\ ccall.limit = MaxCandLimit
    /\ Len(ccall.res.out) = 5
    /\ ccall.res.out[1].score = 2 /\ ccall.res.out[2].score = 1
    /\ \E i \in DOMAIN ctab : ctab[i] = CandRow(<<"d">>)

----------------------------------------------------------------------------
(* SpecLife: one LocalSearchMCPServer from main() to the end of run, with   *)
(* the indexer threads it starts.  run handles the requests one after the   *)
(* other on the main thread; an indexer thread runs run_forever.            *)

\* The most tools/call requests, the most files of a pass, the most passes of
\* a thread.
MaxCalls == 2
MaxPassFiles == 2
MaxLoopPasses == 2

LifeOuter == UNCHANGED <<fsVars, dbVars, scanVars, histVars, loopVars, rdVars,
                         dbcVars, srchVars, redVars, ftsVars, stVars, srvVars,
                         iniVars, toolVars, snipVars, walkVars, recVars,
                         listVars, likeVars, candVars>>

\* The values of LOCAL_SEARCH_INIT_TIMEOUT: "5" (also the default when it is
\* unset), "0", a text that is no number, and "inf".
InitTimeouts == {"5", "0", "abc", "inf"}

\* Lines 97-99: float(...) raises ValueError for a text that is no number,
\* int(init_timeout * 10) raises OverflowError for an infinite one.
TimeoutRaises(v) == v \in {"abc", "inf"}

\* Lines 97-105: whether self._initialized = True is reached after the thread
\* was started.
InitializedAfterWait(v) == ~TimeoutRaises(v)

\* A thread just started on the store numbered db; its first pass has n files.
NewThread(db, n) ==
    [db |-> db, pc |-> "scan", stop |-> FALSE, todo |-> n, passes |-> 1,
     onClosed |-> FALSE]

\* main(): the server is constructed and run begins.
LifeLaunch(v) ==
    /\ mainpc = "new"
    /\ mainpc' = "serving"
    /\ init_timeout' = v
    /\ UNCHANGED <<calls, isInit, dbs, threads>>
    /\ LifeOuter

\* handle_tools_call (lines 292-293) with _ensure_initialized (51-108): when
\* self._initialized is false, a store is opened, an Indexer made and its
\* thread started, and the flag is set after the wait for the first pass; an
\* exception on the way is logged and raised again, and handle_request
\* answers it with an error.  n is the number of files of the first pass.
HandleToolsCall(n) ==
    /\ mainpc = "serving"
    /\ calls < MaxCalls
    /\ calls' = calls + 1
    /\ IF isInit
       THEN UNCHANGED <<isInit, dbs, threads>>
       ELSE /\ dbs' = Append(dbs, "open")
            /\ threads' = Append(threads, NewThread(Len(dbs) + 1, n))
            /\ isInit' = InitializedAfterWait(init_timeout)
    /\ UNCHANGED <<init_timeout, mainpc>>
    /\ LifeOuter

\* The daemon threads run as long as the process does.
Running(k) == k \in 1..Len(threads) /\ mainpc # "exited"

\* _scan_once, one file: get_file_meta on the read connection and, with a
\* full batch, upsert_files on the write connection.  On a closed connection
\* the call raises sqlite3.ProgrammingError, which the loop counts as an error.
ScanStep(k) ==
    /\ Running(k)
    /\ threads[k].pc = "scan"
    /\ threads[k].todo > 0
    /\ threads' = [threads EXCEPT ![k].todo = @ - 1,
                                  ![k].onClosed = @ \/ dbs[threads[k].db] = "closed"]
    /\ UNCHANGED <<init_timeout, mainpc, calls, isInit, dbs>>
    /\ LifeOuter

\* _scan_once, after the loop: the last flush, if the batch holds rows, and
\* the status writes; run_forever goes to its wait.
PassEnd(k, flush) ==
    /\ Running(k)
    /\ threads[k].pc = "scan"
    /\ threads[k].todo = 0
    /\ threads' = [threads EXCEPT ![k].pc = "wait",
                                  ![k].onClosed = @ \/ (flush /\ dbs[threads[k].db] = "closed")]
    /\ UNCHANGED <<init_timeout, mainpc, calls, isInit, dbs>>
    /\ LifeOuter

\* run_forever, lines 83-88: the wait ends (by the timer or by the event);
\* the loop is left if stop is set, and the next pass begins if not.
Wake(k, n) ==
    /\ Running(k)
    /\ threads[k].pc = "wait"
    /\ IF threads[k].stop
       THEN /\ n = 0
            /\ threads' = [threads EXCEPT ![k].pc = "exited"]
       ELSE /\ threads[k].passes < MaxLoopPasses
            /\ threads' = [threads EXCEPT ![k].pc = "scan", ![k].todo = n,
                                          ![k].passes = @ + 1]
    /\ UNCHANGED <<init_timeout, mainpc, calls, isInit, dbs>>
    /\ LifeOuter

\* run, lines 657-661: stdin has ended (or KeyboardInterrupt); finally,
\* self.indexer.stop() if there is an indexer.
ShutdownStop ==
    /\ mainpc = "serving"
    /\ mainpc' = "stopped"
    /\ threads' = IF threads = <<>> THEN threads
                  ELSE [threads EXCEPT ![Len(threads)].stop = TRUE]
    /\ UNCHANGED <<init_timeout, calls, isInit, dbs>>
    /\ LifeOuter

\* run, lines 662-663: self.db.close() if there is a store.
ShutdownClose ==
    /\ mainpc = "stopped"
    /\ mainpc' = "closed"
    /\ dbs' = IF dbs = <<>> THEN dbs ELSE [dbs EXCEPT ![Len(dbs)] = "closed"]
    /\ UNCHANGED <<init_timeout, calls, isInit, threads>>
    /\ LifeOuter

\* main() returns and the process ends, its daemon threads with it.
ProcessExit ==
    /\ mainpc = "closed"
    /\ mainpc' = "exited"
    /\ UNCHANGED <<init_timeout, calls, isInit, dbs, threads>>
    /\ LifeOuter

NextLife ==
    \/ \E v \in InitTimeouts : LifeLaunch(v)
    \/ \E n \in 0..MaxPassFiles : HandleToolsCall(n)
    \/ \E k \in 1..MaxCalls : ScanStep(k)
    \/ \E k \in 1..MaxCalls, flush \in BOOLEAN : PassEnd(k, flush)
    \/ \E k \in 1..MaxCalls, n \in 0..MaxPassFiles : Wake(k, n)
    \/ ShutdownStop
    \/ ShutdownClose
    \/ ProcessExit

SpecLife == Init /\ [][NextLife]_vars

\* The threads that have not left run_forever, and those in a pass.
Alive == {k \in 1..Len(threads) : threads[k].pc # "exited"}
InPass == {k \in 1..Len(threads) : threads[k].pc = "scan"}

\* C38: over the requests to one server the store and the indexer are
\* initialised at most once and at most one indexer loop is started: at most
\* one pass is in progress at any time, and the store has one writer.
C38_InitialisedOnce ==
    /\ Len(dbs) <= 1
    /\ Len(threads) <= 1
    /\ Cardinality(InPass) <= 1
    /\ Cardinality(Alive) <= 1

\* The same for a server whose LOCAL_SEARCH_INIT_TIMEOUT is a finite number.
InitialisedOnceWhenTimeoutParses ==
    ~TimeoutRaises(init_timeout) => C38_InitialisedOnce

\* C39: the store is not closed while a pass is in progress: no step of a
\* pass operates on a closed store.
C39_NoScanOnClosedStore ==
    \A k \in 1..Len(threads) :
        /\ ~threads[k].onClosed
        /\ threads[k].pc = "scan" => dbs[threads[k].db] = "open"

====
